---- MODULE Spec2Model ----
(***************************************************************************)
(* A model of the Silk tree-walking executor.  internal/executor/executor.go *)
(* holds two Executors: the stack-based one (envStack / envPool /          *)
(* builtinCache / sem, lines 1-469) and the map-based one (a single env    *)
(* map, lines 471-795).  A run of the model is a run of one of them:       *)
(* variant says which.  The cases of Execute that read the same in both    *)
(* are modelled once; the others have an action per variant (the           *)
(* map-based one's name ends in Map).                                      *)
(*                                                                         *)
(* Execute is modelled as a small-step machine: every goroutine has a      *)
(* stack k of pending Execute activations (one frame per Go call that is   *)
(* waiting for a nested Execute) and a register (val, err) holding what    *)
(* the last completed Execute returned.  The Executor's fields are shared  *)
(* by all goroutines, as in the code, and every step reads or writes them  *)
(* at the place the code does.                                             *)
(***************************************************************************)
EXTENDS Integers, Sequences, FiniteSets, TLC

VARIABLES
    envStack,      \* e.envStack: seq of Environment [variables, isReusable]
    env,           \* e.env of the map-based Executor: the address of its map
    envPool,       \* e.envPool: seq of Environment
    functions,     \* e.functions: name -> FunctionDeclaration node
    builtins,      \* e.builtins: name -> callable
    builtinCache,  \* e.builtinCache: name -> callable
    maxGoroutines, \* e.maxGoroutines = runtime.NumCPU()
    sem,           \* number of elements buffered in the channel e.sem
    blocks,        \* per running ParallelBlock: its locals wg, errors, mu
    threads,       \* goroutines; threads[1] is the caller of Execute
    ops,           \* calls the harness (a main.go) still has to make
    results,       \* what each top-level Execute returned
    out,           \* effects of the builtin callables (what was printed)
    heap,          \* the maps made by make(map[string]interface{}), by address
    crashed,       \* the process ended by a panic or a runtime fatal error
    raced,         \* the maps two goroutines accessed at once, one of them writing
    alien,         \* a call touched or popped a frame that it did not push
    scenario       \* which harness runs, on which Executor, with its inputs

vars == <<envStack, env, envPool, functions, builtins, builtinCache, maxGoroutines,
          sem, blocks, threads, ops, results, out, heap, crashed, raced, alien,
          scenario>>

----------------------------------------------------------------------------
(* Bounds of the model.                                                    *)

\* largest number of children of a ParallelBlock of failing/assigning children
MaxChildren == 3
\* largest number of parallel calls of compute in test_programs/parallelism
MaxCalls == 2
\* largest runtime.NumCPU() considered
MaxPermits == 2
\* numeric literals are drawn from 0 .. MaxNum
MaxNum == 2

----------------------------------------------------------------------------
(* Runtime values: interface{} holding nil, float64, string or bool.       *)
(* A float64 is kept as the exact fraction n/d (d > 0, lowest terms).      *)

NilV == [t |-> "nil", n |-> 0, d |-> 1, s |-> ""]
NumV(n) == [t |-> "num", n |-> n, d |-> 1, s |-> ""]
StrV(s) == [t |-> "str", n |-> 0, d |-> 1, s |-> s]
BoolV(b) == [t |-> "bool", n |-> IF b THEN 1 ELSE 0, d |-> 1, s |-> ""]

Abs(x) == IF x < 0 THEN -x ELSE x

RECURSIVE Gcd(_, _)
Gcd(a, b) == IF b = 0 THEN a ELSE Gcd(b, a % b)

\* the float64 n/d
Frac(n, d) ==
    LET g == Gcd(Abs(n), Abs(d))
        sgn == IF d < 0 THEN -1 ELSE 1
    IN  [t |-> "num", n |-> sgn * (n \div g), d |-> sgn * (d \div g), s |-> ""]

(* error values *)
NoErr == [kind |-> "nil", name |-> "", errs |-> << >>]
Err(kind, name) == [kind |-> kind, name |-> name, errs |-> << >>]
MultipleErrors(errs) == [kind |-> "multiple errors occurred", name |-> "", errs |-> errs]

----------------------------------------------------------------------------
(* The node model (internal/models/node.go).                               *)

NilNode == [type |-> "nil"]
Program(body) == [type |-> "Program", body |-> body]
Number(v) == [type |-> "Number", value |-> v]
String(s) == [type |-> "String", value |-> s]
Variable(name) == [type |-> "Variable", name |-> name]
BinaryExpression(op, l, r) ==
    [type |-> "BinaryExpression", op |-> op, left |-> l, right |-> r]
ComparisonExpression(op, l, r) ==
    [type |-> "ComparisonExpression", op |-> op, left |-> l, right |-> r]
Assignment(name, value) == [type |-> "Assignment", name |-> name, value |-> value]
IfStatement(cond, cons, alt) ==
    [type |-> "IfStatement", cond |-> cond, cons |-> cons, alt |-> alt]
ParallelBlock(body) == [type |-> "ParallelBlock", body |-> body]
FunctionCall(name, args) == [type |-> "FunctionCall", name |-> name, args |-> args]
FunctionDeclaration(name, params, body) ==
    [type |-> "FunctionDeclaration", name |-> name, params |-> params, body |-> body]
ForLoop(init, cond, post, body) ==
    [type |-> "ForLoop", init |-> init, cond |-> cond, post |-> post, body |-> body]
WhileLoop(cond, body) == [type |-> "WhileLoop", cond |-> cond, body |-> body]
ReturnStatement(value) == [type |-> "ReturnStatement", value |-> value]

----------------------------------------------------------------------------
(* Go maps (map[string]T) as functions with a finite domain.               *)

EmptyMap == << >>
Has(m, key) == key \in DOMAIN m
\* a faulty store m[key] = v: the map stays as it was
PutDropped(m, key, v) == m
Put(m, key, v) == [x \in (DOMAIN m) \cup {key} |-> IF x = key THEN v ELSE m[x]]

\* type Environment struct { variables; isReusable }: variables is the
\* address in heap of the frame's map
Environment(variables, isReusable) ==
    [variables |-> variables, isReusable |-> isReusable]

----------------------------------------------------------------------------
(* Goroutines.                                                             *)
(*   pc = "idle"      the harness is between two calls of the Executor     *)
(*        "exec"      about to call Execute(node)                          *)
(*        "ret"       Execute returned (val, err) to the top frame         *)
(*        "at"        inside the handler of the top frame, at its step at  *)
(*        "mapassign" inside a map assignment m[key] = val (see w)         *)
(*        "done"      the goroutine has ended                              *)

NoWrite == [m |-> "none", id |-> 0]

Thread(pc, node, stack, blk, idx) ==
    [pc |-> pc, node |-> node, val |-> NilV, err |-> NoErr, stack |-> stack,
     blk |-> blk, idx |-> idx, w |-> NoWrite, ran |-> FALSE]

Threads == DOMAIN threads
Top(t) == threads[t].stack[Len(threads[t].stack)]
Pop(stack) == SubSeq(stack, 1, Len(stack) - 1)
Push(stack, f) == Append(stack, f)
SetTop(stack, f) == [stack EXCEPT ![Len(stack)] = f]

\* the next thread states
DoExec(th, node, stack) ==
    [th EXCEPT !.pc = "exec", !.node = node, !.val = NilV, !.err = NoErr, !.stack = stack]
DoRet(th, val, err, stack) ==
    [th EXCEPT !.pc = "ret", !.node = NilNode, !.val = val, !.err = err, !.stack = stack]
DoAt(th, stack) ==
    [th EXCEPT !.pc = "at", !.node = NilNode, !.val = NilV, !.err = NoErr, !.stack = stack]

\* the Executor that runs: "stack" (executor.go 1-469) or "map" (471-795)
variant == scenario.variant

Running(t) == ~crashed /\ t \in Threads
AtExec(t, type) == Running(t) /\ threads[t].pc = "exec" /\ threads[t].node.type = type
AtRet(t, kind) == Running(t) /\ threads[t].pc = "ret" /\ Top(t).k = kind
AtStep(t, kind, at) ==
    Running(t) /\ threads[t].pc = "at" /\ Top(t).k = kind /\ Top(t).at = at

regs == <<functions, builtins, builtinCache>>
envs == <<envStack, env, envPool, heap>>
par == <<sem, blocks>>
harness == <<ops, results>>
ghosts == <<raced, alien, scenario>>

\* a step that changes only the goroutine's own state
Local(t, th) ==
    /\ threads' = [threads EXCEPT ![t] = th]
    /\ UNCHANGED <<regs, envs, par, harness, ghosts, maxGoroutines, out, crashed>>

\* a panic in any goroutine, or a fatal error of the runtime, ends the process
Panic ==
    /\ crashed' = TRUE
    /\ UNCHANGED <<regs, envs, par, harness, ghosts, maxGoroutines, out, threads>>

----------------------------------------------------------------------------
(* Map accesses.  An assignment m[key] = val takes two steps (the runtime  *)
(* starts the write, then finishes it); a lookup takes one.  Two accesses  *)
(* of one map by two goroutines overlap, one of them a write: a data race. *)

\* some other goroutine is inside an assignment to map m ("env": the map at id)
Writing(t, m, id) ==
    \E u \in Threads \ {t} : threads[u].w.m = m /\ threads[u].w.id = id

Raced(t, m, id) == IF Writing(t, m, id) THEN raced \cup {m} ELSE raced

\* thread th, inside the assignment m[key] = val, to go on at pc next
BeginAssign(th, m, id, key, val, snap, next) ==
    [th EXCEPT !.pc = "mapassign",
               !.w = [m |-> m, id |-> id, key |-> key, val |-> val,
                      snap |-> snap, next |-> next]]

----------------------------------------------------------------------------
(* Frames of the environment stack.                                        *)

\* a faulty currentEnv: the bottom frame of the stack
currentEnvBase == envStack[1]

\* func (e *Executor) currentEnv(): &e.envStack[len(e.envStack)-1];
\* with an empty stack the index is -1 and the goroutine panics
currentEnv == envStack[Len(envStack)]

\* the frame pushed by the innermost user-function call that goroutine t is
\* executing (0: t is inside no call)
OwnFrame(stack) ==
    LET calls == {i \in 1..Len(stack) : stack[i].k = "Call" /\ stack[i].fid # 0}
    IN  IF calls = {} THEN 0
        ELSE stack[CHOOSE i \in calls : \A j \in calls : j <= i].fid

\* t, inside a call, uses frame id, which its call did not push
Alien(t, id) == alien \/ OwnFrame(threads[t].stack) \notin {0, id}

----------------------------------------------------------------------------
(* The harness: what a main.go does with the Executor.                     *)

Idle == ~crashed /\ threads[1].pc = "idle" /\ ops # << >>

\* func (e *Executor) RegisterBuiltin(name, function)
RegisterBuiltin ==
    /\ Idle /\ ops[1].op = "RegisterBuiltin"
    /\ builtins' = Put(builtins, ops[1].name, ops[1].fn)
    /\ ops' = Tail(ops)
    /\ UNCHANGED <<functions, builtinCache, envs, par, results, ghosts,
                   maxGoroutines, out, crashed, threads>>

\* a faulty RegisterFunction: a name already registered keeps its declaration
RegisterFunctionOnce ==
    /\ Idle /\ ops[1].op = "RegisterFunction"
    /\ functions' = IF Has(functions, ops[1].name) THEN functions
                    ELSE Put(functions, ops[1].name, ops[1].decl)
    /\ ops' = Tail(ops)
    /\ UNCHANGED <<builtins, builtinCache, envs, par, results, ghosts,
                   maxGoroutines, out, crashed, threads>>

\* func (e *Executor) RegisterFunction(name, function)
RegisterFunction ==
    /\ Idle /\ ops[1].op = "RegisterFunction"
    /\ functions' = Put(functions, ops[1].name, ops[1].decl)
    /\ ops' = Tail(ops)
    /\ UNCHANGED <<builtins, builtinCache, envs, par, results, ghosts,
                   maxGoroutines, out, crashed, threads>>

\* the harness makes a map-based Executor with NewExecutor() and goes on with
\* it; the first Executor and its frames stay as they are
NewExecutorMapCall ==
    /\ Idle /\ ops[1].op = "NewExecutorMap"
    /\ env' = Len(heap) + 1
    /\ heap' = Append(heap, << >>)
    /\ functions' = << >> /\ builtins' = << >> /\ builtinCache' = << >>
    /\ scenario' = [scenario EXCEPT !.variant = "map"]
    /\ ops' = Tail(ops)
    /\ UNCHANGED <<envStack, envPool, par, results, raced, alien, maxGoroutines, out,
                   crashed, threads>>

\* the harness calls exec.Execute(node)
ExecuteCall ==
    /\ Idle /\ ops[1].op = "Execute"
    /\ threads' = [threads EXCEPT ![1] = DoExec(@, ops[1].node, <<[k |-> "Top"]>>)]
    /\ ops' = Tail(ops)
    /\ UNCHANGED <<regs, envs, par, results, ghosts, maxGoroutines, out, crashed>>

\* exec.Execute(node) returns (val, err) to the harness
ExecuteReturn ==
    /\ AtRet(1, "Top")
    /\ results' = Append(results, [val |-> threads[1].val, err |-> threads[1].err])
    /\ threads' = [threads EXCEPT ![1] = [@ EXCEPT !.pc = "idle", !.stack = << >>,
                                                  !.val = NilV, !.err = NoErr]]
    /\ UNCHANGED <<regs, envs, par, ops, ghosts, maxGoroutines, out, crashed>>

----------------------------------------------------------------------------
(* Execute: the sequential cases.                                          *)

\* case *models.Program: enter the loop over n.Body
ExecProgram(t) ==
    /\ AtExec(t, "Program")
    /\ LET th == threads[t]
           body == th.node.body
       IN  IF body = << >>
           THEN Local(t, DoRet(th, NilV, NoErr, th.stack))
           ELSE Local(t, DoExec(th, body[1],
                         Push(th.stack, [k |-> "Program", body |-> body, i |-> 1])))

\* a faulty Program loop: a failed statement does not end the loop
ProgramNextAfterError(t) ==
    /\ AtRet(t, "Program")
    /\ LET th == threads[t]
           f == Top(t)
       IN  IF f.i < Len(f.body)
           THEN Local(t, DoExec(th, f.body[f.i + 1],
                         SetTop(th.stack, [f EXCEPT !.i = f.i + 1])))
           ELSE IF th.err # NoErr
           THEN Local(t, DoRet(th, NilV, th.err, Pop(th.stack)))
           ELSE Local(t, DoRet(th, th.val, NoErr, Pop(th.stack)))

\* case *models.Program: statement i returned (res, err)
ProgramNext(t) ==
    /\ AtRet(t, "Program")
    /\ LET th == threads[t]
           f == Top(t)
       IN  IF th.err # NoErr
           THEN Local(t, DoRet(th, NilV, th.err, Pop(th.stack)))
           ELSE IF f.i < Len(f.body)
           THEN Local(t, DoExec(th, f.body[f.i + 1],
                         SetTop(th.stack, [f EXCEPT !.i = f.i + 1])))
           ELSE Local(t, DoRet(th, th.val, NoErr, Pop(th.stack)))

\* case *models.Number
ExecNumber(t) ==
    /\ AtExec(t, "Number")
    /\ Local(t, DoRet(threads[t], NumV(threads[t].node.value), NoErr, threads[t].stack))

\* case *models.String
ExecString(t) ==
    /\ AtExec(t, "String")
    /\ Local(t, DoRet(threads[t], StrV(threads[t].node.value), NoErr, threads[t].stack))

\* case *models.Variable: val, ok := e.currentEnv().variables[n.Name]
ExecVariable(t) ==
    /\ AtExec(t, "Variable") /\ variant = "stack"
    /\ IF Len(envStack) = 0 THEN Panic
       ELSE LET th == threads[t]
                name == th.node.name
                cur == currentEnv
            IN  /\ threads' = [threads EXCEPT ![t] =
                       IF Has(heap[cur.variables], name)
                       THEN DoRet(th, heap[cur.variables][name], NoErr, th.stack)
                       ELSE DoRet(th, NilV, Err("undefined variable", name), th.stack)]
                /\ raced' = Raced(t, "env", cur.variables)
                /\ alien' = Alien(t, cur.variables)
                /\ UNCHANGED <<regs, envs, par, harness, scenario, maxGoroutines, out, crashed>>

\* case *models.Assignment: val, err := e.Execute(n.Value)
ExecAssignment(t) ==
    /\ AtExec(t, "Assignment")
    /\ LET th == threads[t]
       IN  Local(t, DoExec(th, th.node.value,
                    Push(th.stack, [k |-> "Assignment", name |-> th.node.name])))

\* case *models.Assignment: e.currentEnv().variables[n.Variable.Name] = val
AssignmentStore(t) ==
    /\ AtRet(t, "Assignment") /\ variant = "stack"
    /\ LET th == threads[t]
       IN  IF th.err # NoErr
           THEN Local(t, DoRet(th, NilV, th.err, Pop(th.stack)))
           ELSE IF Len(envStack) = 0 THEN Panic
           ELSE /\ threads' = [threads EXCEPT ![t] =
                       BeginAssign(DoRet(th, th.val, NoErr, Pop(th.stack)), "env",
                                   currentEnv.variables, Top(t).name, th.val,
                                   heap[currentEnv.variables], "ret")]
                /\ raced' = Raced(t, "env", currentEnv.variables)
                /\ alien' = Alien(t, currentEnv.variables)
                /\ UNCHANGED <<regs, envs, par, harness, scenario, maxGoroutines, out, crashed>>

\* what map m holds now
Contents(m, id) ==
    CASE m = "functions" -> functions
      [] m = "builtinCache" -> builtinCache
      [] OTHER -> heap[id]

\* the end of a map assignment m[key] = val.  Without a concurrent writer the
\* key is added to what the map holds; when another goroutine wrote the map
\* since this assignment began, that write may also be lost.
MapAssignCommit(t) ==
    /\ Running(t) /\ threads[t].pc = "mapassign"
    /\ LET w == threads[t].w
           cur == Contents(w.m, w.id)
       IN  \E lost \in BOOLEAN :
             /\ lost => cur # w.snap
             /\ LET new == Put(IF lost THEN w.snap ELSE cur, w.key, w.val)
                IN  /\ functions' = IF w.m = "functions" THEN new ELSE functions
                    /\ builtinCache' = IF w.m = "builtinCache" THEN new ELSE builtinCache
                    /\ heap' = IF w.m = "env" THEN [heap EXCEPT ![w.id] = new] ELSE heap
    /\ threads' = [threads EXCEPT ![t] = [@ EXCEPT !.pc = threads[t].w.next, !.w = NoWrite]]
    /\ UNCHANGED <<builtins, envStack, env, envPool, par, harness, ghosts, maxGoroutines,
                   out, crashed>>

\* the Go runtime finds two goroutines inside an assignment to one map:
\* "fatal error: concurrent map writes"
FatalConcurrentMapWrites(t) ==
    /\ Running(t) /\ threads[t].pc = "mapassign"
    /\ Writing(t, threads[t].w.m, threads[t].w.id)
    /\ Panic

----------------------------------------------------------------------------
(* Arithmetic and comparison on float64.                                   *)

\* a faulty isValidOperator: every operator is accepted
isValidOperatorAny(operator) == TRUE

\* func (e *Executor) isValidOperator(operator string) bool
isValidOperator(operator) == operator \in {"+", "-", "*", "/"}

\* a faulty handleBinaryOperation: a division by 0 yields an infinity
handleBinaryOperationInf(operator, left, right) ==
    CASE operator = "+" ->
           [val |-> Frac(left.n * right.d + right.n * left.d, left.d * right.d), err |-> NoErr]
      [] operator = "-" ->
           [val |-> Frac(left.n * right.d - right.n * left.d, left.d * right.d), err |-> NoErr]
      [] operator = "*" ->
           [val |-> Frac(left.n * right.n, left.d * right.d), err |-> NoErr]
      [] operator = "/" ->
           IF right.n = 0
           THEN [val |-> [t |-> "num", n |-> 1, d |-> 0, s |-> ""], err |-> NoErr]
           ELSE [val |-> Frac(left.n * right.d, left.d * right.n), err |-> NoErr]
      [] OTHER -> [val |-> NilV, err |-> Err("unknown operator", operator)]

\* func (e *Executor) handleBinaryOperation(operator, left, right float64)
handleBinaryOperation(operator, left, right) ==
    CASE operator = "+" ->
           [val |-> Frac(left.n * right.d + right.n * left.d, left.d * right.d), err |-> NoErr]
      [] operator = "-" ->
           [val |-> Frac(left.n * right.d - right.n * left.d, left.d * right.d), err |-> NoErr]
      [] operator = "*" ->
           [val |-> Frac(left.n * right.n, left.d * right.d), err |-> NoErr]
      [] operator = "/" ->
           IF right.n = 0
           THEN [val |-> NilV, err |-> Err("division by zero", "")]
           ELSE [val |-> Frac(left.n * right.d, left.d * right.n), err |-> NoErr]
      [] OTHER -> [val |-> NilV, err |-> Err("unknown operator", operator)]

\* a faulty handleComparison: < holds for equal operands too
handleComparisonOrEqual(operator, left, right) ==
    CASE operator = ">" ->
           [val |-> BoolV(left.n * right.d > right.n * left.d), err |-> NoErr]
      [] operator = "<" ->
           [val |-> BoolV(left.n * right.d <= right.n * left.d), err |-> NoErr]
      [] operator = "==" ->
           [val |-> BoolV(left.n * right.d = right.n * left.d), err |-> NoErr]
      [] OTHER -> [val |-> NilV, err |-> Err("unknown comparison operator", operator)]

\* func (e *Executor) handleComparison(operator, left, right float64)
handleComparison(operator, left, right) ==
    CASE operator = ">" ->
           [val |-> BoolV(left.n * right.d > right.n * left.d), err |-> NoErr]
      [] operator = "<" ->
           [val |-> BoolV(left.n * right.d < right.n * left.d), err |-> NoErr]
      [] operator = "==" ->
           [val |-> BoolV(left.n * right.d = right.n * left.d), err |-> NoErr]
      [] OTHER -> [val |-> NilV, err |-> Err("unknown comparison operator", operator)]

\* case *models.BinaryExpression: the operator is validated, then n.Left runs
ExecBinaryExpression(t) ==
    /\ AtExec(t, "BinaryExpression") /\ variant = "stack"
    /\ LET th == threads[t]
           n == th.node
       IN  IF ~isValidOperator(n.op)
           THEN Local(t, DoRet(th, NilV, Err("unknown operator", n.op), th.stack))
           ELSE Local(t, DoExec(th, n.left,
                         Push(th.stack, [k |-> "BinaryLeft", op |-> n.op, right |-> n.right])))

\* case *models.BinaryExpression: left, err := e.Execute(n.Left) returned
BinaryLeftDone(t) ==
    /\ AtRet(t, "BinaryLeft")
    /\ LET th == threads[t]
           f == Top(t)
       IN  IF th.err # NoErr
           THEN Local(t, DoRet(th, NilV, th.err, Pop(th.stack)))
           ELSE Local(t, DoExec(th, f.right,
                         SetTop(th.stack, [k |-> "BinaryRight", op |-> f.op, left |-> th.val])))

\* case *models.BinaryExpression: right, err := e.Execute(n.Right) returned
BinaryRightDone(t) ==
    /\ AtRet(t, "BinaryRight")
    /\ LET th == threads[t]
           f == Top(t)
       IN  IF th.err # NoErr
           THEN Local(t, DoRet(th, NilV, th.err, Pop(th.stack)))
           ELSE IF f.left.t # "num" \/ th.val.t # "num"
           THEN Local(t, DoRet(th, NilV, Err("operands must be numbers", ""), Pop(th.stack)))
           ELSE LET r == handleBinaryOperation(f.op, f.left, th.val)
                IN  Local(t, DoRet(th, r.val, r.err, Pop(th.stack)))

\* case *models.ComparisonExpression: n.Left runs
ExecComparisonExpression(t) ==
    /\ AtExec(t, "ComparisonExpression")
    /\ LET th == threads[t]
           n == th.node
       IN  Local(t, DoExec(th, n.left,
                    Push(th.stack, [k |-> "ComparisonLeft", op |-> n.op, right |-> n.right])))

\* case *models.ComparisonExpression: left, err := e.Execute(n.Left) returned
ComparisonLeftDone(t) ==
    /\ AtRet(t, "ComparisonLeft")
    /\ LET th == threads[t]
           f == Top(t)
       IN  IF th.err # NoErr
           THEN Local(t, DoRet(th, NilV, th.err, Pop(th.stack)))
           ELSE Local(t, DoExec(th, f.right,
                         SetTop(th.stack, [k |-> "ComparisonRight", op |-> f.op, left |-> th.val])))

\* case *models.ComparisonExpression: right, err := e.Execute(n.Right) returned
ComparisonRightDone(t) ==
    /\ AtRet(t, "ComparisonRight")
    /\ LET th == threads[t]
           f == Top(t)
       IN  IF th.err # NoErr
           THEN Local(t, DoRet(th, NilV, th.err, Pop(th.stack)))
           ELSE IF f.left.t # "num" \/ th.val.t # "num"
           THEN Local(t, DoRet(th, NilV, Err("operands must be numbers", ""), Pop(th.stack)))
           ELSE LET r == handleComparison(f.op, f.left, th.val)
                IN  Local(t, DoRet(th, r.val, r.err, Pop(th.stack)))

\* case *models.IfStatement: condition, err := e.Execute(n.Condition)
ExecIfStatement(t) ==
    /\ AtExec(t, "IfStatement")
    /\ LET th == threads[t]
           n == th.node
       IN  Local(t, DoExec(th, n.cond,
                    Push(th.stack, [k |-> "IfStatement", cons |-> n.cons, alt |-> n.alt])))

\* a faulty IfStatement: after the consequent the alternate is executed too
IfConditionDoneFallThrough(t) ==
    /\ AtRet(t, "IfStatement")
    /\ LET th == threads[t]
           f == Top(t)
       IN  IF th.err # NoErr
           THEN Local(t, DoRet(th, NilV, th.err, Pop(th.stack)))
           ELSE IF th.val.t # "bool"
           THEN Local(t, DoRet(th, NilV, Err("condition must evaluate to a boolean", ""),
                               Pop(th.stack)))
           ELSE IF th.val.n = 1 /\ f.alt # NilNode
           THEN Local(t, DoExec(th, f.cons, Push(Pop(th.stack),
                         [k |-> "Program", body |-> <<f.cons, f.alt>>, i |-> 1])))
           ELSE IF th.val.n = 1
           THEN Local(t, DoExec(th, f.cons, Pop(th.stack)))
           ELSE IF f.alt # NilNode
           THEN Local(t, DoExec(th, f.alt, Pop(th.stack)))
           ELSE Local(t, DoRet(th, NilV, NoErr, Pop(th.stack)))

\* case *models.IfStatement: the condition returned; the chosen branch is
\* executed in tail position (return e.Execute(n.Consequent))
IfConditionDone(t) ==
    /\ AtRet(t, "IfStatement")
    /\ LET th == threads[t]
           f == Top(t)
       IN  IF th.err # NoErr
           THEN Local(t, DoRet(th, NilV, th.err, Pop(th.stack)))
           ELSE IF th.val.t # "bool"
           THEN Local(t, DoRet(th, NilV, Err("condition must evaluate to a boolean", ""),
                               Pop(th.stack)))
           ELSE IF th.val.n = 1
           THEN Local(t, DoExec(th, f.cons, Pop(th.stack)))
           ELSE IF f.alt # NilNode
           THEN Local(t, DoExec(th, f.alt, Pop(th.stack)))
           ELSE Local(t, DoRet(th, NilV, NoErr, Pop(th.stack)))

\* the node types that Execute's type switch has a case for
Cases ==
    {"Program", "Number", "Variable", "Assignment", "BinaryExpression", "IfStatement",
     "String", "ComparisonExpression", "ParallelBlock", "FunctionDeclaration",
     "FunctionCall", "ForLoop", "WhileLoop"}

\* default: return nil, fmt.Errorf("unknown node type: %T", n)
ExecDefault(t) ==
    /\ Running(t) /\ threads[t].pc = "exec" /\ threads[t].node.type \notin Cases
    /\ Local(t, DoRet(threads[t], NilV, Err("unknown node type", threads[t].node.type),
                      threads[t].stack))

----------------------------------------------------------------------------
(* Function declarations and calls.                                        *)

\* case *models.FunctionDeclaration: e.functions[n.Name] = n
ExecFunctionDeclaration(t) ==
    /\ AtExec(t, "FunctionDeclaration")
    /\ LET th == threads[t]
       IN  /\ threads' = [threads EXCEPT ![t] =
                  BeginAssign(DoRet(th, NilV, NoErr, th.stack), "functions", 0,
                              th.node.name, th.node, functions, "ret")]
           /\ raced' = Raced(t, "functions", 0)
           /\ UNCHANGED <<regs, envs, par, harness, alien, scenario, maxGoroutines, out, crashed>>

\* the callables that the test programs register with RegisterBuiltin:
\* sleepRandom sleeps and returns (nil, nil); the others print their arguments
Prints(fn) == fn # "sleepRandom"

\* the loop over n.Args of a builtin call, from its first argument
StartBuiltin(th, fn, args) ==
    LET f == [k |-> "Builtin", at |-> "arg", fn |-> fn, args |-> args, i |-> 1,
              vals |-> << >>]
    IN  IF args = << >>
        THEN DoAt(th, Push(th.stack, [f EXCEPT !.at = "call"]))
        ELSE DoExec(th, args[1], Push(th.stack, f))

\* the frame of a call of the user function fn
CallFrame(fn, args) ==
    [k |-> "Call", at |-> "push", fn |-> fn, args |-> args, i |-> 0, fid |-> 0,
     caller |-> 0, newEnv |-> Environment(0, FALSE), read |-> << >>,
     env |-> Environment(0, FALSE), depth |-> Len(envStack),
     val |-> NilV, err |-> NoErr]

\* a faulty lookup: a user function of the name hides the builtin
IsBuiltinUnlessFunction(name) == Has(builtins, name) /\ ~Has(functions, name)

\* builtin, ok := e.builtins[n.Name]
IsBuiltin(name) == Has(builtins, name)

\* a faulty check: any number of arguments is accepted
ArityAny(n, function) == TRUE

\* the number of arguments of the call n matches the number of parameters
ArityMatches(n, function) == Len(n.args) = Len(function.params)

\* func (e *Executor) handleFunctionCall(n): the lookups in builtinCache,
\* builtins and functions, and the check of the number of arguments
ExecFunctionCall(t) ==
    /\ AtExec(t, "FunctionCall") /\ variant = "stack"
    /\ LET th == threads[t]
           n == th.node
       IN  IF Has(builtinCache, n.name)
           THEN /\ threads' = [threads EXCEPT ![t] =
                       StartBuiltin(th, builtinCache[n.name], n.args)]
                /\ raced' = Raced(t, "builtinCache", 0)
           ELSE IF IsBuiltin(n.name)
           THEN /\ threads' = [threads EXCEPT ![t] =
                       LET go == StartBuiltin(th, builtins[n.name], n.args)
                       IN  BeginAssign(go, "builtinCache", 0, n.name, builtins[n.name],
                                       builtinCache, go.pc)]
                /\ raced' = Raced(t, "builtinCache", 0)
           ELSE /\ threads' = [threads EXCEPT ![t] =
                       IF ~Has(functions, n.name)
                       THEN DoRet(th, NilV, Err("undefined function", n.name), th.stack)
                       ELSE IF ~ArityMatches(n, functions[n.name])
                       THEN DoRet(th, NilV, Err("wrong number of arguments", n.name), th.stack)
                       ELSE DoAt(th, Push(th.stack, CallFrame(functions[n.name], n.args)))]
                /\ raced' = Raced(t, "builtinCache", 0) \cup Raced(t, "functions", 0)
    /\ UNCHANGED <<regs, envs, par, harness, alien, scenario, maxGoroutines, out, crashed>>

\* a builtin call: argVal, err := e.Execute(argNode) returned
BuiltinArgDone(t) ==
    /\ AtRet(t, "Builtin")
    /\ LET th == threads[t]
           f == Top(t)
       IN  IF th.err # NoErr
           THEN Local(t, DoRet(th, NilV, th.err, Pop(th.stack)))
           ELSE IF f.i < Len(f.args)
           THEN Local(t, DoExec(th, f.args[f.i + 1],
                         SetTop(th.stack, [f EXCEPT !.i = f.i + 1,
                                                    !.vals = Append(f.vals, th.val)])))
           ELSE Local(t, DoAt(th, SetTop(th.stack,
                         [f EXCEPT !.at = "call", !.vals = Append(f.vals, th.val)])))

\* return builtin(args): the callable runs
BuiltinInvoke(t) ==
    /\ AtStep(t, "Builtin", "call")
    /\ LET th == threads[t]
           f == Top(t)
       IN  /\ out' = IF Prints(f.fn) THEN Append(out, [fn |-> f.fn, args |-> f.vals, t |-> t])
                     ELSE out
           /\ threads' = [threads EXCEPT ![t] = DoRet(th, NilV, NoErr, Pop(th.stack))]
    /\ UNCHANGED <<regs, envs, par, harness, ghosts, maxGoroutines, crashed>>

\* a faulty pushEnv: the frame taken from the pool keeps its old map
FromPoolAsIs(id) == envPool[Len(envPool)]

\* pushEnv: the last frame of the pool, its variables reset to the new map id
FromPool(id) == [envPool[Len(envPool)] EXCEPT !.variables = id]

\* func (e *Executor) pushEnv(): newEnv is taken from the pool or made, and
\* append reads e.envStack
PushEnvRead(t) ==
    /\ AtStep(t, "Call", "push")
    /\ LET th == threads[t]
           f == Top(t)
           id == Len(heap) + 1
           newEnv == IF Len(envPool) > 0 THEN FromPool(id)
                     ELSE Environment(id, TRUE)
       IN  /\ envPool' = IF Len(envPool) > 0 THEN Pop(envPool) ELSE envPool
           /\ heap' = Append(heap, EmptyMap)
           /\ threads' = [threads EXCEPT ![t] = DoAt(th, SetTop(th.stack,
                  [f EXCEPT !.at = "append", !.newEnv = newEnv, !.read = envStack,
                            !.fid = id,
                            !.caller = IF Len(envStack) = 0 THEN 0
                                       ELSE currentEnv.variables]))]
    /\ UNCHANGED <<envStack, env, regs, par, harness, ghosts, maxGoroutines, out, crashed>>

\* the body of the function starts (for _, stmt := range function.Body)
StartBody(th, f) ==
    IF f.fn.body = << >>
    THEN DoAt(th, SetTop(th.stack, [f EXCEPT !.at = "pop", !.val = NilV, !.err = NoErr]))
    ELSE DoExec(th, f.fn.body[1], SetTop(th.stack, [f EXCEPT !.at = "body", !.i = 1]))

\* pushEnv: e.envStack = append(e.envStack, newEnv) is stored; then the loop
\* over function.Parameters starts
PushEnvWrite(t) ==
    /\ AtStep(t, "Call", "append")
    /\ LET th == threads[t]
           f == Top(t)
       IN  /\ envStack' = Append(f.read, f.newEnv)
           /\ threads' = [threads EXCEPT ![t] =
                  IF f.fn.params = << >>
                  THEN StartBody(th, f)
                  ELSE DoExec(th, f.args[1],
                              SetTop(th.stack, [f EXCEPT !.at = "arg", !.i = 1]))]
    /\ UNCHANGED <<env, envPool, heap, regs, par, harness, ghosts, maxGoroutines, out, crashed>>

\* argVal, err := e.Execute(n.Args[i]) returned:
\* e.currentEnv().variables[param.Name] = argVal
CallArgDone(t) ==
    /\ AtRet(t, "Call") /\ Top(t).at = "arg"
    /\ LET th == threads[t]
           f == Top(t)
       IN  IF th.err # NoErr
           THEN Local(t, DoAt(th, SetTop(th.stack,
                         [f EXCEPT !.at = "pop", !.val = NilV, !.err = th.err])))
           ELSE IF Len(envStack) = 0 THEN Panic
           ELSE /\ threads' = [threads EXCEPT ![t] =
                       LET go == IF f.i < Len(f.fn.params)
                                 THEN DoExec(th, f.args[f.i + 1],
                                             SetTop(th.stack, [f EXCEPT !.i = f.i + 1]))
                                 ELSE StartBody(th, f)
                       IN  BeginAssign(go, "env", currentEnv.variables,
                                       f.fn.params[f.i], th.val,
                                       heap[currentEnv.variables], go.pc)]
                /\ raced' = Raced(t, "env", currentEnv.variables)
                /\ alien' = Alien(t, currentEnv.variables)
                /\ UNCHANGED <<regs, envs, par, harness, scenario, maxGoroutines, out, crashed>>

\* res, err := e.Execute(stmt) returned to the loop over function.Body
CallBodyNext(t) ==
    /\ AtRet(t, "Call") /\ Top(t).at = "body"
    /\ LET th == threads[t]
           f == Top(t)
       IN  IF th.err # NoErr
           THEN Local(t, DoAt(th, SetTop(th.stack,
                         [f EXCEPT !.at = "pop", !.val = NilV, !.err = th.err])))
           ELSE IF f.fn.body[f.i].type = "ReturnStatement" \/ f.i = Len(f.fn.body)
           THEN Local(t, DoAt(th, SetTop(th.stack,
                         [f EXCEPT !.at = "pop", !.val = th.val, !.err = NoErr])))
           ELSE Local(t, DoExec(th, f.fn.body[f.i + 1],
                         SetTop(th.stack, [f EXCEPT !.i = f.i + 1])))

\* defer e.popEnv(): env := e.envStack[len(e.envStack)-1]
PopEnvRead(t) ==
    /\ AtStep(t, "Call", "pop")
    /\ IF Len(envStack) = 0 THEN Panic
       ELSE LET th == threads[t]
                f == Top(t)
            IN  /\ threads' = [threads EXCEPT ![t] =
                       [th EXCEPT !.stack = SetTop(th.stack,
                           [f EXCEPT !.at = "shrink", !.env = currentEnv])]]
                /\ alien' = (alien \/ currentEnv.variables # f.fid)
                /\ UNCHANGED <<regs, envs, par, harness, raced, scenario, maxGoroutines, out, crashed>>

\* a faulty popEnv: env goes to the pool and e.envStack keeps it
PopEnvWriteKeepsTop(t) ==
    /\ AtStep(t, "Call", "shrink")
    /\ IF Len(envStack) = 0 THEN Panic
       ELSE LET th == threads[t]
                f == Top(t)
            IN  /\ envStack' = envStack
                /\ envPool' = IF f.env.isReusable THEN Append(envPool, f.env)
                              ELSE envPool
                /\ threads' = [threads EXCEPT ![t] = DoRet(th, f.val, f.err, Pop(th.stack))]
                /\ alien' = (alien \/ currentEnv.variables # f.fid)
                /\ UNCHANGED <<env, heap, regs, par, harness, raced, scenario, maxGoroutines, out,
                               crashed>>

\* a faulty handleFunctionCall: popEnv runs only when the call succeeded
PopEnvWriteOnSuccess(t) ==
    /\ AtStep(t, "Call", "shrink")
    /\ IF Len(envStack) = 0 THEN Panic
       ELSE LET th == threads[t]
                f == Top(t)
            IN  /\ envStack' = IF f.err = NoErr THEN Pop(envStack) ELSE envStack
                /\ envPool' = IF f.env.isReusable /\ f.err = NoErr THEN Append(envPool, f.env)
                              ELSE envPool
                /\ threads' = [threads EXCEPT ![t] = DoRet(th, f.val, f.err, Pop(th.stack))]
                /\ alien' = (alien \/ currentEnv.variables # f.fid)
                /\ UNCHANGED <<env, heap, regs, par, harness, raced, scenario, maxGoroutines, out,
                               crashed>>

\* popEnv: e.envStack = e.envStack[:len(e.envStack)-1]; env goes to the pool
\* if env.isReusable; then handleFunctionCall returns
PopEnvWrite(t) ==
    /\ AtStep(t, "Call", "shrink")
    /\ IF Len(envStack) = 0 THEN Panic
       ELSE LET th == threads[t]
                f == Top(t)
            IN  /\ envStack' = Pop(envStack)
                /\ envPool' = IF f.env.isReusable THEN Append(envPool, f.env)
                              ELSE envPool
                /\ threads' = [threads EXCEPT ![t] = DoRet(th, f.val, f.err, Pop(th.stack))]
                /\ alien' = (alien \/ currentEnv.variables # f.fid)
                /\ UNCHANGED <<env, heap, regs, par, harness, raced, scenario, maxGoroutines, out,
                               crashed>>

----------------------------------------------------------------------------
(* Loops.                                                                  *)

\* func (e *Executor) handleForLoop(n): _, err := e.Execute(n.Initialization)
ExecForLoop(t) ==
    /\ AtExec(t, "ForLoop")
    /\ LET th == threads[t]
       IN  Local(t, DoExec(th, th.node.init,
                    Push(th.stack, [k |-> "ForLoop", at |-> "init", n |-> th.node, i |-> 0])))

\* handleForLoop: the initialization or the post statement returned; the
\* condition is evaluated next
ForInitOrPostDone(t) ==
    /\ AtRet(t, "ForLoop") /\ Top(t).at \in {"init", "post"}
    /\ LET th == threads[t]
           f == Top(t)
       IN  IF th.err # NoErr
           THEN Local(t, DoRet(th, NilV, th.err, Pop(th.stack)))
           ELSE Local(t, DoExec(th, f.n.cond, SetTop(th.stack, [f EXCEPT !.at = "cond"])))

\* handleForLoop: condition, err := e.Execute(n.Condition) returned
ForConditionDone(t) ==
    /\ AtRet(t, "ForLoop") /\ Top(t).at = "cond"
    /\ LET th == threads[t]
           f == Top(t)
       IN  IF th.err # NoErr
           THEN Local(t, DoRet(th, NilV, th.err, Pop(th.stack)))
           ELSE IF th.val.t # "bool"
           THEN Local(t, DoRet(th, NilV, Err("condition must evaluate to a boolean", ""),
                               Pop(th.stack)))
           ELSE IF th.val.n = 0
           THEN Local(t, DoRet(th, NilV, NoErr, Pop(th.stack)))
           ELSE IF f.n.body = << >>
           THEN Local(t, DoExec(th, f.n.post, SetTop(th.stack, [f EXCEPT !.at = "post"])))
           ELSE Local(t, DoExec(th, f.n.body[1],
                         SetTop(th.stack, [f EXCEPT !.at = "body", !.i = 1])))

\* handleForLoop: a statement of the body returned
ForBodyNext(t) ==
    /\ AtRet(t, "ForLoop") /\ Top(t).at = "body"
    /\ LET th == threads[t]
           f == Top(t)
       IN  IF th.err # NoErr
           THEN Local(t, DoRet(th, NilV, th.err, Pop(th.stack)))
           ELSE IF f.i < Len(f.n.body)
           THEN Local(t, DoExec(th, f.n.body[f.i + 1],
                         SetTop(th.stack, [f EXCEPT !.i = f.i + 1])))
           ELSE Local(t, DoExec(th, f.n.post, SetTop(th.stack, [f EXCEPT !.at = "post"])))

\* func (e *Executor) handleWhileLoop(n): condition, err := e.Execute(n.Condition)
ExecWhileLoop(t) ==
    /\ AtExec(t, "WhileLoop")
    /\ LET th == threads[t]
       IN  Local(t, DoExec(th, th.node.cond,
                    Push(th.stack, [k |-> "WhileLoop", at |-> "cond", n |-> th.node, i |-> 0])))

\* handleWhileLoop: the condition returned
WhileConditionDone(t) ==
    /\ AtRet(t, "WhileLoop") /\ Top(t).at = "cond"
    /\ LET th == threads[t]
           f == Top(t)
       IN  IF th.err # NoErr
           THEN Local(t, DoRet(th, NilV, th.err, Pop(th.stack)))
           ELSE IF th.val.t # "bool"
           THEN Local(t, DoRet(th, NilV, Err("condition must evaluate to a boolean", ""),
                               Pop(th.stack)))
           ELSE IF th.val.n = 0
           THEN Local(t, DoRet(th, NilV, NoErr, Pop(th.stack)))
           ELSE IF f.n.body = << >>
           THEN Local(t, DoExec(th, f.n.cond, th.stack))
           ELSE Local(t, DoExec(th, f.n.body[1],
                         SetTop(th.stack, [f EXCEPT !.at = "body", !.i = 1])))

\* handleWhileLoop: a statement of the body returned
WhileBodyNext(t) ==
    /\ AtRet(t, "WhileLoop") /\ Top(t).at = "body"
    /\ LET th == threads[t]
           f == Top(t)
       IN  IF th.err # NoErr
           THEN Local(t, DoRet(th, NilV, th.err, Pop(th.stack)))
           ELSE IF f.i < Len(f.n.body)
           THEN Local(t, DoExec(th, f.n.body[f.i + 1],
                         SetTop(th.stack, [f EXCEPT !.i = f.i + 1])))
           ELSE Local(t, DoExec(th, f.n.cond, SetTop(th.stack, [f EXCEPT !.at = "cond"])))

----------------------------------------------------------------------------
(* case *models.ParallelBlock.                                             *)
(* blocks[b] holds the locals of one execution of the case: wg (the        *)
(* WaitGroup's counter), errors, mu (0: unlocked, else the holder).  n, and *)
(* failed, returned, result record what happened, for the properties.  The *)
(* map-based Executor has wg and, for errors and mu, the buffered channel  *)
(* errorsCh.                                                               *)

Block(n) ==
    [wg |-> 0, errors |-> << >>, mu |-> 0, errorsCh |-> << >>, n |-> n,
     failed |-> << >>, returned |-> FALSE, result |-> [val |-> NilV, err |-> NoErr]]

\* a faulty acquire: the child is started without a permit
SemFreeAlways == TRUE

\* e.sem <- struct{}{} can proceed: the channel's buffer is not full
SemFree == sem < maxGoroutines

\* a faulty loop: it stops submitting once a child has failed
SpawnMoreUntilError(b, i, body) == i <= Len(body) /\ blocks[b].errors = << >>

\* for _, childNode := range n.Body has a child left to submit
SpawnMore(b, i, body) == i <= Len(body)

\* a faulty wait: the block does not wait for its children
WaitDoneAtOnce(b) == TRUE

\* wg.Wait() can return
WaitDone(b) == blocks[b].wg = 0

\* a faulty lock: errors is appended to without the mutex
MuFreeAlways(b) == TRUE

\* mu.Lock() can proceed
MuFree(b) == blocks[b].mu = 0

\* the block's locals are made; the loop over n.Body starts
ExecParallelBlock(t) ==
    /\ AtExec(t, "ParallelBlock")
    /\ LET th == threads[t]
           b == Len(blocks) + 1
       IN  /\ blocks' = Append(blocks, Block(Len(th.node.body)))
           /\ threads' = [threads EXCEPT ![t] = DoAt(th, Push(th.stack,
                  [k |-> "ParallelBlock", at |-> "spawn", b |-> b,
                   body |-> th.node.body, i |-> 1]))]
    /\ UNCHANGED <<regs, envs, sem, harness, ghosts, maxGoroutines, out, crashed>>

\* e.sem <- struct{}{}; wg.Add(1); go func(node) {...}(childNode)
ParallelSpawn(t) ==
    /\ AtStep(t, "ParallelBlock", "spawn") /\ variant = "stack"
    /\ SpawnMore(Top(t).b, Top(t).i, Top(t).body)
    /\ SemFree
    /\ LET th == threads[t]
           f == Top(t)
       IN  /\ sem' = sem + 1
           /\ blocks' = [blocks EXCEPT ![f.b].wg = @ + 1]
           /\ threads' = Append(
                  [threads EXCEPT ![t] = DoAt(th, SetTop(th.stack, [f EXCEPT !.i = f.i + 1]))],
                  Thread("exec", f.body[f.i],
                         <<[k |-> "Go", at |-> "run", b |-> f.b, err |-> NoErr,
                            read |-> << >>]>>, f.b, f.i))
    /\ UNCHANGED <<regs, envs, harness, ghosts, maxGoroutines, out, crashed>>

\* wg.Wait() returns; the block returns the aggregate error or (nil, nil)
ParallelWait(t) ==
    /\ AtStep(t, "ParallelBlock", "spawn") /\ variant = "stack"
    /\ ~SpawnMore(Top(t).b, Top(t).i, Top(t).body)
    /\ WaitDone(Top(t).b)
    /\ LET th == threads[t]
           b == Top(t).b
           err == IF Len(blocks[b].errors) > 0 THEN MultipleErrors(blocks[b].errors)
                  ELSE NoErr
       IN  /\ threads' = [threads EXCEPT ![t] = DoRet(th, NilV, err, Pop(th.stack))]
           /\ blocks' = [blocks EXCEPT ![b].returned = TRUE,
                                       ![b].result = [val |-> NilV, err |-> err]]
    /\ UNCHANGED <<regs, envs, sem, harness, ghosts, maxGoroutines, out, crashed>>

\* in the goroutine: _, err := e.Execute(node) returned
ChildReturn(t) ==
    /\ AtRet(t, "Go") /\ variant = "stack"
    /\ LET th == threads[t]
           f == Top(t)
       IN  /\ threads' = [threads EXCEPT ![t] =
                  [DoAt(th, SetTop(th.stack,
                        [f EXCEPT !.at = IF th.err # NoErr THEN "lock" ELSE "release",
                                  !.err = th.err]))
                   EXCEPT !.ran = TRUE]]
           /\ blocks' = [blocks EXCEPT ![f.b].failed =
                            IF th.err # NoErr THEN Append(@, th.err) ELSE @]
    /\ UNCHANGED <<regs, envs, sem, harness, ghosts, maxGoroutines, out, crashed>>

\* mu.Lock(); append reads errors
ChildLock(t) ==
    /\ AtStep(t, "Go", "lock")
    /\ MuFree(Top(t).b)
    /\ LET th == threads[t]
           f == Top(t)
       IN  /\ blocks' = [blocks EXCEPT ![f.b].mu = t]
           /\ threads' = [threads EXCEPT ![t] = [th EXCEPT !.stack = SetTop(th.stack,
                  [f EXCEPT !.at = "append", !.read = blocks[f.b].errors])]]
    /\ UNCHANGED <<regs, envs, sem, harness, ghosts, maxGoroutines, out, crashed>>

\* a faulty child: after a failure the permit is not given back
ChildAppendKeepsPermit(t) ==
    /\ AtStep(t, "Go", "append")
    /\ LET th == threads[t]
           f == Top(t)
       IN  /\ blocks' = [blocks EXCEPT ![f.b].errors = Append(f.read, f.err),
                                       ![f.b].mu = 0]
           /\ threads' = [threads EXCEPT ![t] = [th EXCEPT !.stack = SetTop(th.stack,
                  [f EXCEPT !.at = "done"])]]
    /\ UNCHANGED <<regs, envs, sem, harness, ghosts, maxGoroutines, out, crashed>>

\* errors = append(errors, err) is stored; mu.Unlock()
ChildAppend(t) ==
    /\ AtStep(t, "Go", "append")
    /\ LET th == threads[t]
           f == Top(t)
       IN  /\ blocks' = [blocks EXCEPT ![f.b].errors = Append(f.read, f.err),
                                       ![f.b].mu = 0]
           /\ threads' = [threads EXCEPT ![t] = [th EXCEPT !.stack = SetTop(th.stack,
                  [f EXCEPT !.at = "release"])]]
    /\ UNCHANGED <<regs, envs, sem, harness, ghosts, maxGoroutines, out, crashed>>

\* defer func() { <-e.sem }()
ChildRelease(t) ==
    /\ AtStep(t, "Go", "release")
    /\ sem > 0
    /\ sem' = sem - 1
    /\ threads' = [threads EXCEPT ![t] = [@ EXCEPT !.stack = SetTop(threads[t].stack,
           [Top(t) EXCEPT !.at = "done"])]]
    /\ UNCHANGED <<regs, envs, blocks, harness, ghosts, maxGoroutines, out, crashed>>

\* defer wg.Done(); the goroutine ends
ChildDone(t) ==
    /\ AtStep(t, "Go", "done")
    /\ blocks' = [blocks EXCEPT ![Top(t).b].wg = @ - 1]
    /\ threads' = [threads EXCEPT ![t] = [@ EXCEPT !.pc = "done", !.stack = << >>]]
    /\ UNCHANGED <<regs, envs, sem, harness, ghosts, maxGoroutines, out, crashed>>

----------------------------------------------------------------------------
(* The map-based Executor (executor.go 471-795): the cases of its Execute  *)
(* that differ from those of the stack-based one.                          *)

\* case *models.Variable: val, ok := e.env[n.Name]
ExecVariableMap(t) ==
    /\ AtExec(t, "Variable") /\ variant = "map"
    /\ LET th == threads[t]
           name == th.node.name
       IN  /\ threads' = [threads EXCEPT ![t] =
                  IF Has(heap[env], name)
                  THEN DoRet(th, heap[env][name], NoErr, th.stack)
                  ELSE DoRet(th, NilV, Err("undefined variable", name), th.stack)]
           /\ raced' = Raced(t, "env", env)
    /\ UNCHANGED <<regs, envs, par, harness, alien, scenario, maxGoroutines, out, crashed>>

\* case *models.Assignment: e.env[n.Variable.Name] = val
AssignmentStoreMap(t) ==
    /\ AtRet(t, "Assignment") /\ variant = "map"
    /\ LET th == threads[t]
       IN  IF th.err # NoErr
           THEN Local(t, DoRet(th, NilV, th.err, Pop(th.stack)))
           ELSE /\ threads' = [threads EXCEPT ![t] =
                       BeginAssign(DoRet(th, th.val, NoErr, Pop(th.stack)), "env",
                                   env, Top(t).name, th.val, heap[env], "ret")]
                /\ raced' = Raced(t, "env", env)
                /\ UNCHANGED <<regs, envs, par, harness, alien, scenario, maxGoroutines,
                               out, crashed>>

\* what add, subtract, multiply and divide do: return (val, err), or panic
Returns(val, err) == [val |-> val, err |-> err, panic |-> FALSE]
Panics == [val |-> NilV, err |-> NoErr, panic |-> TRUE]

\* func (e *Executor) add(a, b interface{}): the type assertions b.(float64)
\* and b.(string) panic when b is of another type
add(a, b) ==
    CASE a.t = "num" ->
           IF b.t # "num" THEN Panics
           ELSE Returns(Frac(a.n * b.d + b.n * a.d, a.d * b.d), NoErr)
      [] a.t = "str" ->
           IF b.t # "str" THEN Panics ELSE Returns(StrV(a.s \o b.s), NoErr)
      [] OTHER -> Returns(NilV, Err("unsupported types for addition", ""))

\* func (e *Executor) subtract(a, b interface{})
subtract(a, b) ==
    IF a.t # "num" \/ b.t # "num" THEN Returns(NilV, Err("operands must be numbers", ""))
    ELSE Returns(Frac(a.n * b.d - b.n * a.d, a.d * b.d), NoErr)

\* func (e *Executor) multiply(a, b interface{})
multiply(a, b) ==
    IF a.t # "num" \/ b.t # "num" THEN Returns(NilV, Err("operands must be numbers", ""))
    ELSE Returns(Frac(a.n * b.n, a.d * b.d), NoErr)

\* func (e *Executor) divide(a, b interface{})
divide(a, b) ==
    IF a.t # "num" \/ b.t # "num" THEN Returns(NilV, Err("operands must be numbers", ""))
    ELSE IF b.n = 0 THEN Returns(NilV, Err("division by zero", ""))
    ELSE Returns(Frac(a.n * b.d, a.d * b.n), NoErr)

\* case *models.BinaryExpression: left, err := e.Execute(n.Left)
ExecBinaryExpressionMap(t) ==
    /\ AtExec(t, "BinaryExpression") /\ variant = "map"
    /\ LET th == threads[t]
           n == th.node
       IN  Local(t, DoExec(th, n.left,
                    Push(th.stack, [k |-> "BinaryLeftMap", op |-> n.op, right |-> n.right])))

\* case *models.BinaryExpression: n.Left returned; right, err := e.Execute(n.Right)
BinaryLeftDoneMap(t) ==
    /\ AtRet(t, "BinaryLeftMap")
    /\ LET th == threads[t]
           f == Top(t)
       IN  IF th.err # NoErr
           THEN Local(t, DoRet(th, NilV, th.err, Pop(th.stack)))
           ELSE Local(t, DoExec(th, f.right,
                         SetTop(th.stack, [k |-> "BinaryRightMap", op |-> f.op, left |-> th.val])))

\* case *models.BinaryExpression: n.Right returned; switch n.Operator
BinaryRightDoneMap(t) ==
    /\ AtRet(t, "BinaryRightMap")
    /\ LET th == threads[t]
           f == Top(t)
           r == CASE f.op = "+" -> add(f.left, th.val)
                  [] f.op = "-" -> subtract(f.left, th.val)
                  [] f.op = "*" -> multiply(f.left, th.val)
                  [] f.op = "/" -> divide(f.left, th.val)
                  [] OTHER -> Returns(NilV, Err("unknown operator", f.op))
       IN  IF th.err # NoErr
           THEN Local(t, DoRet(th, NilV, th.err, Pop(th.stack)))
           ELSE IF r.panic THEN Panic
           ELSE Local(t, DoRet(th, r.val, r.err, Pop(th.stack)))

\* the frame of a call of the user function fn; newEnv is the address of the
\* map made by newEnv := make(map[string]interface{})
CallFrameMap(fn, args, newEnv) ==
    [k |-> "CallMap", at |-> "arg", fn |-> fn, args |-> args, i |-> 1,
     newEnv |-> newEnv, originalEnv |-> 0, caller |-> env, val |-> NilV, err |-> NoErr]

\* case *models.FunctionCall: the lookups in builtins and functions; newEnv is
\* made and the loop over function.Parameters starts (n.Args[i] panics when
\* the call has fewer arguments than the function has parameters)
ExecFunctionCallMap(t) ==
    /\ AtExec(t, "FunctionCall") /\ variant = "map"
    /\ LET th == threads[t]
           n == th.node
       IN  IF IsBuiltin(n.name)
           THEN Local(t, StartBuiltin(th, builtins[n.name], n.args))
           ELSE IF ~Has(functions, n.name)
           THEN /\ threads' = [threads EXCEPT ![t] =
                       DoRet(th, NilV, Err("undefined function", n.name), th.stack)]
                /\ raced' = Raced(t, "functions", 0)
                /\ UNCHANGED <<regs, envs, par, harness, alien, scenario, maxGoroutines,
                               out, crashed>>
           ELSE IF functions[n.name].params # << >> /\ n.args = << >>
           THEN Panic
           ELSE LET f == CallFrameMap(functions[n.name], n.args, Len(heap) + 1)
                IN  /\ heap' = Append(heap, EmptyMap)
                    /\ threads' = [threads EXCEPT ![t] =
                           IF f.fn.params = << >>
                           THEN DoAt(th, Push(th.stack, [f EXCEPT !.at = "save"]))
                           ELSE DoExec(th, n.args[1], Push(th.stack, f))]
                    /\ raced' = Raced(t, "functions", 0)
                    /\ UNCHANGED <<regs, envStack, env, envPool, par, harness, alien, scenario,
                                   maxGoroutines, out, crashed>>

\* argVal, err := e.Execute(n.Args[i]) returned: newEnv[param.Name] = argVal
CallArgDoneMap(t) ==
    /\ AtRet(t, "CallMap") /\ Top(t).at = "arg"
    /\ LET th == threads[t]
           f == Top(t)
       IN  IF th.err # NoErr
           THEN Local(t, DoRet(th, NilV, th.err, Pop(th.stack)))
           ELSE IF f.i < Len(f.fn.params) /\ f.i + 1 > Len(f.args)
           THEN Panic
           ELSE /\ heap' = [heap EXCEPT ![f.newEnv] = Put(@, f.fn.params[f.i], th.val)]
                /\ threads' = [threads EXCEPT ![t] =
                       IF f.i < Len(f.fn.params)
                       THEN DoExec(th, f.args[f.i + 1],
                                   SetTop(th.stack, [f EXCEPT !.i = f.i + 1]))
                       ELSE DoAt(th, SetTop(th.stack, [f EXCEPT !.at = "save"]))]
                /\ UNCHANGED <<regs, envStack, env, envPool, par, harness, ghosts,
                               maxGoroutines, out, crashed>>

\* originalEnv := e.env
CallSaveEnvMap(t) ==
    /\ AtStep(t, "CallMap", "save")
    /\ Local(t, DoAt(threads[t], SetTop(threads[t].stack,
                [Top(t) EXCEPT !.at = "swap", !.originalEnv = env])))

\* e.env = newEnv; the loop over function.Body starts
CallSwapEnvMap(t) ==
    /\ AtStep(t, "CallMap", "swap")
    /\ LET th == threads[t]
           f == Top(t)
       IN  /\ env' = f.newEnv
           /\ threads' = [threads EXCEPT ![t] =
                  IF f.fn.body = << >>
                  THEN DoAt(th, SetTop(th.stack, [f EXCEPT !.at = "restore"]))
                  ELSE DoExec(th, f.fn.body[1],
                              SetTop(th.stack, [f EXCEPT !.at = "body", !.i = 1]))]
    /\ UNCHANGED <<regs, envStack, envPool, heap, par, harness, ghosts, maxGoroutines,
                   out, crashed>>

\* res, err := e.Execute(stmt) returned to the loop over function.Body
CallBodyNextMap(t) ==
    /\ AtRet(t, "CallMap") /\ Top(t).at = "body"
    /\ LET th == threads[t]
           f == Top(t)
       IN  IF th.err # NoErr
           THEN Local(t, DoAt(th, SetTop(th.stack,
                         [f EXCEPT !.at = "restore", !.val = NilV, !.err = th.err])))
           ELSE IF f.i < Len(f.fn.body)
           THEN Local(t, DoExec(th, f.fn.body[f.i + 1],
                         SetTop(th.stack, [f EXCEPT !.i = f.i + 1])))
           ELSE Local(t, DoAt(th, SetTop(th.stack,
                         [f EXCEPT !.at = "restore", !.val = th.val, !.err = NoErr])))

\* e.env = originalEnv; the call returns
CallRestoreEnvMap(t) ==
    /\ AtStep(t, "CallMap", "restore")
    /\ env' = Top(t).originalEnv
    /\ threads' = [threads EXCEPT ![t] =
           DoRet(threads[t], Top(t).val, Top(t).err, Pop(threads[t].stack))]
    /\ UNCHANGED <<regs, envStack, envPool, heap, par, harness, ghosts, maxGoroutines,
                   out, crashed>>

\* case *models.ParallelBlock: wg.Add(1); go func(node) {...}(childNode)
ParallelSpawnMap(t) ==
    /\ AtStep(t, "ParallelBlock", "spawn") /\ variant = "map"
    /\ SpawnMore(Top(t).b, Top(t).i, Top(t).body)
    /\ LET th == threads[t]
           f == Top(t)
       IN  /\ blocks' = [blocks EXCEPT ![f.b].wg = @ + 1]
           /\ threads' = Append(
                  [threads EXCEPT ![t] = DoAt(th, SetTop(th.stack, [f EXCEPT !.i = f.i + 1]))],
                  Thread("exec", f.body[f.i],
                         <<[k |-> "Go", at |-> "run", b |-> f.b, err |-> NoErr,
                            read |-> << >>]>>, f.b, f.i))
    /\ UNCHANGED <<regs, envs, sem, harness, ghosts, maxGoroutines, out, crashed>>

\* wg.Wait() returns; close(errorsCh); the block returns the first error in
\* the channel, or (nil, nil)
ParallelWaitMap(t) ==
    /\ AtStep(t, "ParallelBlock", "spawn") /\ variant = "map"
    /\ ~SpawnMore(Top(t).b, Top(t).i, Top(t).body)
    /\ WaitDone(Top(t).b)
    /\ LET th == threads[t]
           b == Top(t).b
           err == IF Len(blocks[b].errorsCh) > 0 THEN blocks[b].errorsCh[1] ELSE NoErr
       IN  /\ threads' = [threads EXCEPT ![t] = DoRet(th, NilV, err, Pop(th.stack))]
           /\ blocks' = [blocks EXCEPT ![b].returned = TRUE,
                                       ![b].result = [val |-> NilV, err |-> err]]
    /\ UNCHANGED <<regs, envs, sem, harness, ghosts, maxGoroutines, out, crashed>>

\* the child's _, err := e.Execute(node) returned; if err != nil, errorsCh <- err
\* (the channel has room for one error per child)
ChildReturnMap(t) ==
    /\ AtRet(t, "Go") /\ variant = "map"
    /\ LET th == threads[t]
           f == Top(t)
       IN  /\ threads' = [threads EXCEPT ![t] =
                  [DoAt(th, SetTop(th.stack, [f EXCEPT !.at = "done", !.err = th.err]))
                   EXCEPT !.ran = TRUE]]
           /\ blocks' = [blocks EXCEPT
                  ![f.b].failed = IF th.err # NoErr THEN Append(@, th.err) ELSE @,
                  ![f.b].errorsCh = IF th.err # NoErr THEN Append(@, th.err) ELSE @]
    /\ UNCHANGED <<regs, envs, sem, harness, ghosts, maxGoroutines, out, crashed>>

----------------------------------------------------------------------------
(* The harnesses: the test programs of test_programs/, with their inputs   *)
(* drawn from small sets.                                                  *)

RegisterBuiltinOp(name, fn) == [op |-> "RegisterBuiltin", name |-> name, fn |-> fn]
RegisterFunctionOp(decl) == [op |-> "RegisterFunction", name |-> decl.name, decl |-> decl]
ExecuteOp(node) == [op |-> "Execute", node |-> node]
NewExecutorMapOp == [op |-> "NewExecutorMap"]

Names == <<"x1", "x2", "x3", "x4", "x5">>
Undefined == <<"u1", "u2", "u3", "u4", "u5">>

\* test_programs/parallelism/main.go: compute(n) { sleepRandom(); printResult(n) }
computeFunc ==
    FunctionDeclaration("compute", <<"n">>,
        <<FunctionCall("sleepRandom", << >>),
          FunctionCall("printResult", <<Variable("n")>>)>>)

\* test_programs/parallelism/main.go, with the numbers 1 .. k
Parallelism(k) ==
    <<RegisterBuiltinOp("sleepRandom", "sleepRandom"),
      RegisterBuiltinOp("printResult", "printResult"),
      ExecuteOp(Program(<<computeFunc,
          ParallelBlock([i \in 1..k |-> FunctionCall("compute", <<Number(i)>>)])>>))>>

\* child i of a parallel block: it reads an undefined variable (and fails)
\* or assigns i to its own variable
Child(i, fails) ==
    IF i \in fails THEN Variable(Undefined[i]) ELSE Assignment(Names[i], Number(i))

\* a parallel block of k children, those in fails failing
Children(k, fails) ==
    <<ExecuteOp(Program(<<ParallelBlock([i \in 1..k |-> Child(i, fails)])>>))>>

\* a parallel block whose first child is a parallel block
Nested(fails) ==
    <<ExecuteOp(ParallelBlock(
        <<ParallelBlock(<<Child(1, fails), Child(2, fails)>>), Child(3, fails)>>))>>

\* a parallel block whose two children declare the functions f and g, or
\* make the first two calls of the builtin print
Registry(kind) ==
    IF kind = "declare"
    THEN <<ExecuteOp(ParallelBlock(
             <<FunctionDeclaration("f", << >>, << >>),
               FunctionDeclaration("g", << >>, << >>)>>))>>
    ELSE <<RegisterBuiltinOp("print", "print"),
           ExecuteOp(ParallelBlock(
             <<FunctionCall("print", <<Number(1)>>),
               FunctionCall("print", <<Number(2)>>)>>))>>

\* test_programs/functions/main.go: add(a, b) { return a + b }, called with
\* two numbers; more is a statement that follows the return
addFunc(more) ==
    FunctionDeclaration("add", <<"a", "b">>,
        <<ReturnStatement(BinaryExpression("+", Variable("a"), Variable("b")))>>
        \o (IF more THEN <<FunctionCall("print", <<Variable("a")>>)>> ELSE << >>))

Functions(a, b, more) ==
    <<RegisterBuiltinOp("print", "print"),
      RegisterFunctionOp(addFunc(more)),
      ExecuteOp(FunctionCall("add", <<Number(a), Number(b)>>))>>

\* x = v; second(a, b) { print(b) }; second(x, arg2): the arguments of a
\* call are variables of the caller, or the callee's own first parameter
secondFunc ==
    FunctionDeclaration("second", <<"a", "b">>,
        <<FunctionCall("print", <<Variable("b")>>), Variable("b")>>)

Arguments(v, arg1, arg2) ==
    <<RegisterBuiltinOp("print", "print"),
      ExecuteOp(Program(<<Assignment("x", Number(v)), secondFunc,
                          FunctionCall("second", <<arg1, arg2>>)>>))>>

\* second(a, b) called with k arguments, after a call with two arguments
\* when warm
Arity(k, warm) ==
    <<RegisterBuiltinOp("print", "print"),
      ExecuteOp(Program(
        <<Assignment("x", Number(1)), secondFunc>> \o
        (IF warm THEN <<FunctionCall("second", <<Number(1), Number(2)>>)>> ELSE << >>) \o
        <<FunctionCall("second", [i \in 1..k |-> Number(i)])>>))>>

\* bind(a) { y = a } and probe() { name }
bindFunc == FunctionDeclaration("bind", <<"a">>, <<Assignment("y", Variable("a"))>>)
probeFunc(name) == FunctionDeclaration("probe", << >>, <<Variable(name)>>)

\* bind(v), then name is read by the caller or by the sibling call probe()
Scope(v, name, sibling) ==
    <<ExecuteOp(Program(
        <<bindFunc, probeFunc(name), FunctionCall("bind", <<Number(v)>>),
          IF sibling THEN FunctionCall("probe", << >>) ELSE Variable(name)>>))>>

\* x = v, then a call whose body reads x (peek), assigns x (poke), or calls
\* a function that reads the caller's parameter (outer(a) { inner() })
peekFunc == FunctionDeclaration("peek", << >>, <<Variable("x")>>)
pokeFunc(w) == FunctionDeclaration("poke", << >>, <<Assignment("x", Number(w))>>)
innerFunc == FunctionDeclaration("inner", << >>, <<Variable("a")>>)
outerFunc == FunctionDeclaration("outer", <<"a">>, <<FunctionCall("inner", << >>)>>)

Outer(kind, v) ==
    <<ExecuteOp(Program(
        <<Assignment("x", Number(v)), peekFunc, pokeFunc(v + 1), innerFunc, outerFunc,
          CASE kind = "read" -> FunctionCall("peek", << >>)
            [] kind = "assign" -> FunctionCall("poke", << >>)
            [] kind = "nested" -> FunctionCall("outer", <<Number(v)>>)>>))>>

\* the builtin print is registered, called with 1 when called, registered
\* again with the callable print2, and called with 2
Reregister(called) ==
    <<RegisterBuiltinOp("print", "print")>> \o
    (IF called THEN <<ExecuteOp(FunctionCall("print", <<Number(1)>>))>> ELSE << >>) \o
    <<RegisterBuiltinOp("print", "print2"),
      ExecuteOp(FunctionCall("print", <<Number(2)>>))>>

\* show() { print(1) } is registered, called when between, replaced by
\* show(a) { print(a) } through RegisterFunction or through a
\* FunctionDeclaration, and show(2) is called
showFunc == FunctionDeclaration("show", << >>, <<FunctionCall("print", <<Number(1)>>)>>)
showArgFunc ==
    FunctionDeclaration("show", <<"a">>, <<FunctionCall("print", <<Variable("a")>>)>>)

Redefine(how, between) ==
    <<RegisterBuiltinOp("print", "print"), RegisterFunctionOp(showFunc)>> \o
    (IF between THEN <<ExecuteOp(FunctionCall("show", << >>))>> ELSE << >>) \o
    <<IF how = "RegisterFunction" THEN RegisterFunctionOp(showArgFunc)
      ELSE ExecuteOp(showArgFunc),
      ExecuteOp(FunctionCall("show", <<Number(2)>>))>>

\* the name show is registered as a builtin and as the user function
\* show() { print(1) } in either order, as a user function only, or not at
\* all; show() is called at the end, and when early also after the first
\* registration
Resolve(reg, early) ==
    LET call == ExecuteOp(FunctionCall("show", << >>))
        mid == IF early THEN <<call>> ELSE << >>
        asBuiltin == RegisterBuiltinOp("show", "showBuiltin")
        asFunction == RegisterFunctionOp(showFunc)
    IN  <<RegisterBuiltinOp("print", "print")>> \o
        (CASE reg = "builtin, function" -> <<asBuiltin>> \o mid \o <<asFunction>>
           [] reg = "function, builtin" -> <<asFunction>> \o mid \o <<asBuiltin>>
           [] reg = "function" -> <<asFunction>> \o mid
           [] reg = "none" -> mid) \o
        <<call>>

\* a Program of k statements, those in fails failing
Statements(k, fails) ==
    <<ExecuteOp(Program([i \in 1..k |-> Child(i, fails)]))>>

\* the operands of a binary expression: a number literal, a string literal,
\* the comparison 1 == 1 (a boolean), the variable d (bound to 0) and the
\* sub-expression 1 - 1
NumOperand(a) == [k |-> "num", n |-> a, s |-> ""]
StrOperand(s) == [k |-> "str", n |-> 0, s |-> s]
BoolOperand == [k |-> "bool", n |-> 1, s |-> ""]
VarOperand == [k |-> "var", n |-> 0, s |-> "d"]
SubOperand == [k |-> "sub", n |-> 0, s |-> ""]

LeftOperands == {NumOperand(a) : a \in 0..MaxNum} \cup {StrOperand("x"), BoolOperand}
RightOperands ==
    LeftOperands \cup {StrOperand("y"), VarOperand, SubOperand}

Operand(o) ==
    CASE o.k = "num" -> Number(o.n)
      [] o.k = "str" -> String(o.s)
      [] o.k = "bool" -> ComparisonExpression("==", Number(1), Number(1))
      [] o.k = "var" -> Variable(o.s)
      [] o.k = "sub" -> BinaryExpression("-", Number(1), Number(1))

\* d = 0; l op r
Operands(op, l, r) ==
    <<ExecuteOp(Program(
        <<Assignment("d", Number(0)), BinaryExpression(op, Operand(l), Operand(r))>>))>>

\* operands with an effect: the assignment d = 1, the builtin call print(1),
\* the undefined variable u (its evaluation fails), and the literal 1
EffectOperands == {"assign", "call", "undef", "num"}

EffectOperand(o) ==
    CASE o = "assign" -> Assignment("d", Number(1))
      [] o = "call" -> FunctionCall("print", <<Number(1)>>)
      [] o = "undef" -> Variable("u")
      [] o = "num" -> Number(1)

\* d = 0; l op r with an operator that is not + - * /
Operator(op, l, r) ==
    <<RegisterBuiltinOp("print", "print"),
      ExecuteOp(Program(
        <<Assignment("d", Number(0)),
          BinaryExpression(op, EffectOperand(l), EffectOperand(r))>>))>>

\* s = 0; for i = 0; i < n; i = i + 1 { s = s + i }
SumLoop(n) ==
    <<ExecuteOp(Program(
        <<Assignment("s", Number(0)),
          ForLoop(Assignment("i", Number(0)),
                  ComparisonExpression("<", Variable("i"), Number(n)),
                  Assignment("i", BinaryExpression("+", Variable("i"), Number(1))),
                  <<Assignment("s", BinaryExpression("+", Variable("s"), Variable("i")))>>)>>))>>

\* i = n; while i > 0 { i = i - 1 }; q = 1 / i
Countdown(n) ==
    <<ExecuteOp(Program(
        <<Assignment("i", Number(n)),
          WhileLoop(ComparisonExpression(">", Variable("i"), Number(0)),
                    <<Assignment("i", BinaryExpression("-", Variable("i"), Number(1)))>>),
          Assignment("q", BinaryExpression("/", Number(1), Variable("i")))>>))>>

\* c = (a == 1); if a > 0 { x = a * 2 } (else { x = u }); if c { y = 1 }
Branch(a, else) ==
    <<ExecuteOp(Program(
        <<Assignment("c", ComparisonExpression("==", Number(a), Number(1))),
          IfStatement(ComparisonExpression(">", Number(a), Number(0)),
                      Assignment("x", BinaryExpression("*", Number(a), Number(2))),
                      IF else THEN Assignment("x", Variable("u")) ELSE NilNode),
          IfStatement(Variable("c"), Assignment("y", Number(1)), NilNode)>>))>>

\* the operands that are no strings
CallFree(operands) == {o \in operands : o.k # "str"}

\* the same calls made on a stack-based Executor and then on a map-based one
Twice(calls) == calls \o <<NewExecutorMapOp>> \o calls

\* sign(a) { if a > 0 { return 1 }; print(a); 0 } and
\* first(a) { while a > 0 { return a }; print(a); 0 }
signFunc ==
    FunctionDeclaration("sign", <<"a">>,
        <<IfStatement(ComparisonExpression(">", Variable("a"), Number(0)),
                      ReturnStatement(Number(1)), NilNode),
          FunctionCall("print", <<Variable("a")>>),
          Number(0)>>)

firstFunc ==
    FunctionDeclaration("first", <<"a">>,
        <<WhileLoop(ComparisonExpression(">", Variable("a"), Number(0)),
                    <<ReturnStatement(Variable("a"))>>),
          FunctionCall("print", <<Variable("a")>>),
          Number(0)>>)

NestedReturn(fn, a) ==
    <<RegisterBuiltinOp("print", "print"),
      RegisterFunctionOp(fn),
      ExecuteOp(FunctionCall(fn.name, <<Number(a)>>))>>

\* test_programs/basic_arithmetic/main.go: x = a; y = b; z = (x + y) * 2
BasicArithmetic(a, b) ==
    <<ExecuteOp(Program(
        <<Assignment("x", Number(a)), Assignment("y", Number(b)),
          Assignment("z", BinaryExpression("*",
              BinaryExpression("+", Variable("x"), Variable("y")), Number(2)))>>))>>

\* test_programs/conditonal_logic/main.go, with the thresholds hi and 0
ConditionalLogic(temperature, hi) ==
    <<ExecuteOp(Program(
        <<Assignment("temperature", Number(temperature)),
          IfStatement(ComparisonExpression(">", Variable("temperature"), Number(hi)),
              Assignment("state", String("Gas")),
              IfStatement(ComparisonExpression(">", Variable("temperature"), Number(0)),
                  Assignment("state", String("Liquid")),
                  Assignment("state", String("Solid"))))>>))>>

\* test_programs/functions/main.go (loops test): for i = 0; i < n; i = i + 1 { print(i) }
Loops(n) ==
    <<RegisterBuiltinOp("print", "print"),
      ExecuteOp(Program(
        <<ForLoop(Assignment("i", Number(0)),
                  ComparisonExpression("<", Variable("i"), Number(n)),
                  Assignment("i", BinaryExpression("+", Variable("i"), Number(1))),
                  <<FunctionCall("print", <<Variable("i")>>)>>)>>))>>

\* func NewExecutor() *Executor, and the harness about to make its calls
NewExecutor(cpus, name, in, calls) ==
    /\ envStack = <<Environment(1, FALSE)>>
    /\ env = 0
    /\ heap = <<EmptyMap>>
    /\ functions = EmptyMap
    /\ builtins = EmptyMap
    /\ builtinCache = EmptyMap
    /\ envPool = << >>
    /\ maxGoroutines = cpus
    /\ sem = 0
    /\ blocks = << >>
    /\ threads = <<Thread("idle", NilNode, << >>, 0, 0)>>
    /\ ops = calls
    /\ results = << >>
    /\ out = << >>
    /\ crashed = FALSE
    /\ raced = {}
    /\ alien = FALSE
    /\ scenario = [name |-> name, in |-> in, variant |-> "stack"]

\* func NewExecutor() *Executor of the map-based Executor
NewExecutorMap(name, in, calls) ==
    /\ env = 1
    /\ heap = <<EmptyMap>>
    /\ functions = EmptyMap
    /\ builtins = EmptyMap
    /\ envStack = << >> /\ envPool = << >> /\ builtinCache = EmptyMap
    /\ maxGoroutines = 0 /\ sem = 0
    /\ blocks = << >>
    /\ threads = <<Thread("idle", NilNode, << >>, 0, 0)>>
    /\ ops = calls
    /\ results = << >>
    /\ out = << >>
    /\ crashed = FALSE
    /\ raced = {}
    /\ alien = FALSE
    /\ scenario = [name |-> name, in |-> in, variant |-> "map"]

\* a harness makes one of the two Executors
Start(name, in, calls) ==
    \/ \E cpus \in 1..MaxPermits : NewExecutor(cpus, name, in, calls)
    \/ NewExecutorMap(name, in, calls)

\* a harness that makes both Executors, one after the other
Agree(in, calls) == NewExecutor(1, "Agree", in, Twice(calls))

\* the harnesses without a ParallelBlock
SequentialInit ==
    \/ \E ab \in ((0..MaxNum) \X (0..MaxNum)) \cup {<<3, 5>>}, more \in BOOLEAN :
         Start("Functions", <<ab[1], ab[2], more>>, Functions(ab[1], ab[2], more))
    \/ \E v \in 0..MaxNum :
         \E arg1 \in {Variable("x"), Number(v)}, arg2 \in {Variable("x"), Variable("a")} :
           Start("Arguments", <<v, arg1, arg2>>, Arguments(v, arg1, arg2))
    \/ \E name \in {"a", "y"}, sibling \in BOOLEAN :
         Start("Scope", <<1, name, sibling>>, Scope(1, name, sibling))
    \/ \E kind \in {"read", "assign", "nested"} :
         Start("Outer", <<kind, 1>>, Outer(kind, 1))
    \/ \E called \in BOOLEAN :
         Start("Reregister", <<called>>, Reregister(called))
    \/ \E how \in {"RegisterFunction", "FunctionDeclaration"}, between \in BOOLEAN :
         Start("Redefine", <<how, between>>, Redefine(how, between))
    \/ \E reg \in {"builtin, function", "function, builtin", "function", "none"},
            early \in BOOLEAN :
         Start("Resolve", <<reg, early>>, Resolve(reg, early))
    \/ \E k \in 1..MaxChildren : \E fails \in SUBSET (1..k) :
         Start("Statements", <<k, fails>>, Statements(k, fails))
    \/ \E op \in {"+", "-", "*", "/"}, l \in LeftOperands, r \in RightOperands :
         Start("Operands", <<op, l, r>>, Operands(op, l, r))
    \/ \E op \in {"%", "^"}, l \in EffectOperands, r \in EffectOperands :
         Start("Operator", <<op, l, r>>, Operator(op, l, r))
    \/ \E op \in {"+", "-", "*", "/"}, l \in CallFree(LeftOperands),
            r \in CallFree(RightOperands) :
         Agree(<<"Operands", op, l, r>>, Operands(op, l, r))
    \/ \E k \in 1..MaxChildren : \E fails \in SUBSET (1..k) :
         Agree(<<"Statements", k, fails>>, Statements(k, fails))
    \/ \E n \in 0..MaxNum :
         \/ Agree(<<"SumLoop", n>>, SumLoop(n))
         \/ Agree(<<"Countdown", n>>, Countdown(n))
         \/ \E else \in BOOLEAN : Agree(<<"Branch", n, else>>, Branch(n, else))
    \/ \E k \in {0, 1, 3}, warm \in BOOLEAN :
         Start("Arity", <<k, warm>>, Arity(k, warm))
    \/ \E a \in 0..MaxNum :
         \/ Start("NestedReturn", <<a, "if">>, NestedReturn(signFunc, a))
         \/ Start("NestedReturn", <<a, "while">>, NestedReturn(firstFunc, a))
    \/ \E ab \in ((0..MaxNum) \X (0..MaxNum)) \cup {<<5, 3>>} :
         Start("BasicArithmetic", <<ab[1], ab[2]>>, BasicArithmetic(ab[1], ab[2]))
    \/ \E in \in ((0..MaxNum) \X {1}) \cup ({-1, 0, 50, 100, 101} \X {100}) :
         Start("ConditionalLogic", in, ConditionalLogic(in[1], in[2]))
    \/ \E n \in (0..MaxNum) \cup {5} :
         Start("Loops", <<n>>, Loops(n))

Init ==
    \/ \E k \in 1..MaxChildren : \E fails \in SUBSET (1..k) :
         Start("Children", <<k, fails>>, Children(k, fails))
    \/ \E fails \in SUBSET (1..3) :
         Start("Nested", <<3, fails>>, Nested(fails))
    \/ \E kind \in {"declare", "call"} :
         Start("Registry", <<kind>>, Registry(kind))
    \/ SequentialInit

\* the sequential harnesses, and the parallel blocks of two children
PairInit ==
    \/ \E fails \in SUBSET (1..2) :
         Start("Children", <<2, fails>>, Children(2, fails))
    \/ SequentialInit

\* the harnesses of Init, and test_programs/parallelism with k parallel calls
ParallelismInit ==
    \/ Init
    \/ \E k \in 1..MaxCalls : Start("Parallelism", <<k>>, Parallelism(k))

Next ==
    \/ RegisterBuiltin \/ RegisterFunction \/ NewExecutorMapCall
    \/ ExecuteCall \/ ExecuteReturn
    \/ \E t \in Threads : ExecProgram(t)
    \/ \E t \in Threads : ProgramNext(t)
    \/ \E t \in Threads : ExecNumber(t)
    \/ \E t \in Threads : ExecString(t)
    \/ \E t \in Threads : ExecVariable(t)
    \/ \E t \in Threads : ExecAssignment(t)
    \/ \E t \in Threads : AssignmentStore(t)
    \/ \E t \in Threads : MapAssignCommit(t)
    \/ \E t \in Threads : FatalConcurrentMapWrites(t)
    \/ \E t \in Threads : ExecBinaryExpression(t)
    \/ \E t \in Threads : BinaryLeftDone(t)
    \/ \E t \in Threads : BinaryRightDone(t)
    \/ \E t \in Threads : ExecComparisonExpression(t)
    \/ \E t \in Threads : ComparisonLeftDone(t)
    \/ \E t \in Threads : ComparisonRightDone(t)
    \/ \E t \in Threads : ExecIfStatement(t)
    \/ \E t \in Threads : IfConditionDone(t)
    \/ \E t \in Threads : ExecDefault(t)
    \/ \E t \in Threads : ExecFunctionDeclaration(t)
    \/ \E t \in Threads : ExecFunctionCall(t)
    \/ \E t \in Threads : BuiltinArgDone(t)
    \/ \E t \in Threads : BuiltinInvoke(t)
    \/ \E t \in Threads : PushEnvRead(t)
    \/ \E t \in Threads : PushEnvWrite(t)
    \/ \E t \in Threads : CallArgDone(t)
    \/ \E t \in Threads : CallBodyNext(t)
    \/ \E t \in Threads : PopEnvRead(t)
    \/ \E t \in Threads : PopEnvWrite(t)
    \/ \E t \in Threads : ExecForLoop(t)
    \/ \E t \in Threads : ForInitOrPostDone(t)
    \/ \E t \in Threads : ForConditionDone(t)
    \/ \E t \in Threads : ForBodyNext(t)
    \/ \E t \in Threads : ExecWhileLoop(t)
    \/ \E t \in Threads : WhileConditionDone(t)
    \/ \E t \in Threads : WhileBodyNext(t)
    \/ \E t \in Threads : ExecParallelBlock(t)
    \/ \E t \in Threads : ParallelSpawn(t)
    \/ \E t \in Threads : ParallelWait(t)
    \/ \E t \in Threads : ChildReturn(t)
    \/ \E t \in Threads : ChildLock(t)
    \/ \E t \in Threads : ChildAppend(t)
    \/ \E t \in Threads : ChildRelease(t)
    \/ \E t \in Threads : ChildDone(t)
    \/ \E t \in Threads : ExecVariableMap(t)
    \/ \E t \in Threads : AssignmentStoreMap(t)
    \/ \E t \in Threads : ExecBinaryExpressionMap(t)
    \/ \E t \in Threads : BinaryLeftDoneMap(t)
    \/ \E t \in Threads : BinaryRightDoneMap(t)
    \/ \E t \in Threads : ExecFunctionCallMap(t)
    \/ \E t \in Threads : CallArgDoneMap(t)
    \/ \E t \in Threads : CallSaveEnvMap(t)
    \/ \E t \in Threads : CallSwapEnvMap(t)
    \/ \E t \in Threads : CallBodyNextMap(t)
    \/ \E t \in Threads : CallRestoreEnvMap(t)
    \/ \E t \in Threads : ParallelSpawnMap(t)
    \/ \E t \in Threads : ParallelWaitMap(t)
    \/ \E t \in Threads : ChildReturnMap(t)

Spec == Init /\ [][Next]_vars

\* the harnesses of PairInit, where a goroutine that can take a step
\* eventually takes one
FairSpec == PairInit /\ [][Next]_vars /\ WF_vars(Next)

\* the same, with the parallel calls of test_programs/parallelism
ParallelismSpec == ParallelismInit /\ [][Next]_vars

----------------------------------------------------------------------------
(* Properties.                                                             *)

Range(q) == {q[i] : i \in DOMAIN q}
Count(q, e) == Cardinality({i \in DOMAIN q : q[i] = e})
SameBag(p, q) == \A e \in Range(p) \cup Range(q) : Count(p, e) = Count(q, e)

\* the harness has made all its calls
Finished == threads[1].pc = "idle" /\ ops = << >>
Blocks == DOMAIN blocks
ChildrenOf(b) == {t \in Threads : threads[t].blk = b}

\* C1: on the stack-based Executor a ParallelBlock that has returned returns
\* (nil, nil) when no child failed, and otherwise no value and the aggregate
\* error that holds the error of every failed child exactly once, in
\* whatever order the children completed.
AggregateError ==
    \A b \in Blocks : (variant = "stack" /\ blocks[b].returned) =>
        /\ blocks[b].result.val = NilV
        /\ blocks[b].failed = << >> => blocks[b].result.err = NoErr
        /\ blocks[b].failed # << >> =>
             /\ blocks[b].result.err.kind = "multiple errors occurred"
             /\ SameBag(blocks[b].result.err.errs, blocks[b].failed)

\* three children failed with three distinct errors, and the errors were
\* collected in another order than the children's Execute returned
AggregateErrorWitness ==
    \E b \in Blocks :
        /\ variant = "stack"
        /\ blocks[b].returned
        /\ Len(blocks[b].failed) = 3
        /\ Cardinality(Range(blocks[b].failed)) = 3
        /\ blocks[b].result.err.errs # blocks[b].failed

\* C2: on the stack-based Executor no call uses a frame that another call
\* pushed: a call binds and reads variables only in the frame it pushed, and
\* pops that frame.
NoSharedFrame == variant = "stack" => ~alien

\* C3: in test_programs/parallelism every call compute(i) prints its own
\* argument i, and when the program has returned it returned no error and
\* every number was printed exactly once.
EachCallReadsItsOwnArgument ==
    scenario.name = "Parallelism" =>
        /\ ~crashed
        /\ \A j \in DOMAIN out : out[j].args = <<NumV(threads[out[j].t].idx)>>
        /\ Len(results) = 1 =>
             /\ results[1].err = NoErr
             /\ \A i \in 1..scenario.in[1] :
                  Cardinality({j \in DOMAIN out : out[j].args = <<NumV(i)>>}) = 1

\* the map of the top-level frame
TopLevel == heap[IF variant = "stack" THEN envStack[1].variables ELSE env]

\* C4: after a ParallelBlock of k Assignments to k distinct names has
\* returned, the current frame holds all k bindings with the assigned values,
\* and no two children raced on the frame's map.
ParallelAssignmentsKept ==
    (scenario.name = "Children" /\ scenario.in[2] = {}) =>
        /\ ~crashed
        /\ "env" \notin raced
        /\ Len(results) = 1 =>
             \A i \in 1..scenario.in[1] :
                /\ Has(TopLevel, Names[i])
                /\ TopLevel[Names[i]] = NumV(i)

\* a child goroutine has been started and has not yet given its permit back
Unfinished(t) ==
    /\ threads[t].blk # 0
    /\ threads[t].pc # "done"
    /\ ~(threads[t].pc = "at" /\ Top(t).k = "Go" /\ Top(t).at = "done")

\* C5: on the stack-based Executor at most maxGoroutines children, of all
\* blocks together, have been started and have not finished.
BoundedConcurrency ==
    variant = "stack" => Cardinality({t \in Threads : Unfinished(t)}) <= maxGoroutines

\* maxGoroutines children are unfinished, one of them the child of a nested
\* block, and the outer block still has a child to submit
BoundedConcurrencyWitness ==
    /\ variant = "stack"
    /\ maxGoroutines = MaxPermits
    /\ Cardinality({t \in Threads : Unfinished(t)}) = maxGoroutines
    /\ \E t \in Threads : Unfinished(t) /\ threads[t].blk = 2
    /\ threads[1].pc = "at" /\ Top(1).k = "ParallelBlock" /\ Top(1).i <= Len(Top(1).body)

\* C6: when a ParallelBlock has returned, every child of it has been started
\* and has ended.
BlockWaitsForChildren ==
    \A b \in Blocks : blocks[b].returned =>
        /\ Cardinality(ChildrenOf(b)) = blocks[b].n
        /\ \A t \in ChildrenOf(b) : threads[t].pc = "done"

\* on the map-based Executor a block of at least two children, one of them
\* failing, has returned
BlockWaitsForChildrenWitness ==
    \E b \in Blocks :
        /\ variant = "map"
        /\ blocks[b].returned
        /\ blocks[b].n >= 2
        /\ blocks[b].failed # << >>

\* C7: when a ParallelBlock has returned, each of its children has been
\* executed exactly once, also when other children failed.
EveryChildRunsOnce ==
    \A b \in Blocks : blocks[b].returned =>
        \A i \in 1..blocks[b].n :
            Cardinality({t \in ChildrenOf(b) : threads[t].idx = i /\ threads[t].ran}) = 1

\* with one permit the first child failed before the second was submitted,
\* and the later children were executed all the same
EveryChildRunsOnceWitness ==
    /\ maxGoroutines = 1
    /\ scenario.name = "Children" /\ scenario.in[2] = {1}
    /\ \E b \in Blocks :
        /\ blocks[b].returned
        /\ blocks[b].n >= 2
        /\ Len(blocks[b].failed) = 1
        /\ \E t \in ChildrenOf(b) : threads[t].idx = blocks[b].n /\ threads[t].ran

\* what the expression arg evaluates to in the frame whose map is at id
InFrame(arg, id) ==
    CASE arg.type = "Number" -> [val |-> NumV(arg.value), err |-> NoErr]
      [] arg.type = "Variable" ->
           IF Has(heap[id], arg.name) THEN [val |-> heap[id][arg.name], err |-> NoErr]
           ELSE [val |-> NilV, err |-> Err("undefined variable", arg.name)]

\* C8: in sequential execution every argument of a call of a user function
\* evaluates to what it evaluates to in the caller's frame (a Variable of the
\* caller resolves to the caller's value, a parameter of the callee is
\* undefined).
ArgumentsInCallerFrame ==
    \A t \in Threads :
        (Len(threads) = 1 /\ threads[t].pc = "ret" /\ Top(t).k = "Call" /\ Top(t).at = "arg") =>
            LET f == Top(t)
                r == InFrame(f.args[f.i], f.caller)
            IN  threads[t].val = r.val /\ threads[t].err = r.err

\* C9: the call add(a, b) of test_programs/functions returns a + b and no
\* error, and the statement after the return is not executed.
ReturnStatementYieldsValue ==
    (scenario.name = "Functions" /\ Len(results) = 1) =>
        /\ results[1] = [val |-> NumV(scenario.in[1] + scenario.in[2]), err |-> NoErr]
        /\ out = << >>

\* C10: a call whose body reaches a return inside an if or a loop returns
\* the returned value and no error, and executes no statement after that
\* if or loop.
NestedReturnEndsBody ==
    (scenario.name = "NestedReturn" /\ scenario.in[1] > 0 /\ Len(results) = 1) =>
        /\ results[1] = [val |-> NumV(IF scenario.in[2] = "if" THEN 1 ELSE scenario.in[1]),
                         err |-> NoErr]
        /\ out = << >>

\* C11: a call of a user function with a number of arguments other than its
\* number of parameters returns the arity error in one step that pushes no
\* call frame, runs nothing of the body, and leaves envStack, envPool and
\* every binding as they were (stack-based Executor).
ArityMismatch(t) ==
    /\ variant = "stack" /\ AtExec(t, "FunctionCall")
    /\ ~Has(builtinCache, threads[t].node.name)
    /\ ~Has(builtins, threads[t].node.name)
    /\ Has(functions, threads[t].node.name)
    /\ Len(threads[t].node.args) # Len(functions[threads[t].node.name].params)

CallReturns(t) ==
    /\ Len(threads[t].stack) > 0
    /\ Top(t).k \in {"Call", "CallMap"}
    /\ threads'[t].stack = Pop(threads[t].stack)

CallRestoresCallerFrame ==
    [][\A t \in Threads :
          (blocks = << >> /\ CallReturns(t)) =>
              IF Top(t).k = "Call"
              THEN /\ Len(envStack') = Top(t).depth
                   /\ envStack'[Len(envStack')].variables = Top(t).caller
              ELSE env' = Top(t).caller]_vars

CallRestoresCallerFrameWitness ==
    /\ scenario.name = "Arguments" /\ variant = "stack" /\ Finished
    /\ results[1].err = Err("undefined variable", "x")
    /\ Len(envStack) = 1 /\ Len(envPool) = 1

\* C13: a name bound only in the frame of a call (a parameter, or a name
\* assigned in the body) is undefined in the caller after the call has
\* returned and undefined in a later sibling call, also when that call
\* takes the first call's frame from the pool.
CallBindingsDieWithFrame ==
    (scenario.name = "Scope" /\ Finished) =>
        results[1] = [val |-> NilV, err |-> Err("undefined variable", scenario.in[2])]

CallBindingsDieWithFrameWitness ==
    /\ scenario.name = "Scope" /\ scenario.in[3] /\ variant = "stack" /\ Finished
    /\ Len(envPool) = 1 /\ Len(heap) = 3
    /\ heap[2] = [x \in {"a", "y"} |-> NumV(1)]
    /\ envPool[1].variables = 3
    /\ results[1].err = Err("undefined variable", scenario.in[2])

\* C14: a Variable read in a function body sees only the frame of the call:
\* a name bound in the top-level frame or in the caller's frame, and not in
\* the call's own, fails with undefined variable; an Assignment in a body
\* leaves the outer binding of that name as it was.
BodySeesOnlyOwnFrame ==
    (scenario.name = "Outer" /\ Finished) =>
        /\ TopLevel = [x \in {"x"} |-> NumV(scenario.in[2])]
        /\ results[1] =
               CASE scenario.in[1] = "read" ->
                      [val |-> NilV, err |-> Err("undefined variable", "x")]
                 [] scenario.in[1] = "assign" ->
                      [val |-> NumV(scenario.in[2] + 1), err |-> NoErr]
                 [] scenario.in[1] = "nested" ->
                      [val |-> NilV, err |-> Err("undefined variable", "a")]

BodySeesOnlyOwnFrameWitness ==
    /\ scenario.name = "Outer" /\ scenario.in[1] = "assign" /\ variant = "stack" /\ Finished
    /\ Len(heap) = 2
    /\ heap[2] = [x \in {"x"} |-> NumV(2)]
    /\ heap[envStack[1].variables] = [x \in {"x"} |-> NumV(1)]

\* C15: every entry of builtinCache equals the entry of builtins of the same
\* name, and a call of a builtin invokes the callable registered last under
\* its name, also when the name was called before it was registered again.
BuiltinCacheFollowsRegistry ==
    /\ \A name \in DOMAIN builtinCache :
           Has(builtins, name) /\ builtinCache[name] = builtins[name]
    /\ scenario.name = "Reregister" =>
           \A i \in DOMAIN out :
               out[i].fn = IF out[i].args = <<NumV(1)>> THEN "print" ELSE "print2"

\* C16: after a user function has been registered again under the same name
\* (by RegisterFunction or by executing a FunctionDeclaration) a call of the
\* name runs the parameters and body of the new declaration, whether or not
\* the old one was called in between.
RedefinedFunctionRuns ==
    (scenario.name = "Redefine" /\ Finished) =>
        /\ results[Len(results)] = [val |-> NilV, err |-> NoErr]
        /\ out[Len(out)].args = <<NumV(2)>>
        /\ Len(out) = IF scenario.in[2] THEN 2 ELSE 1

RedefinedFunctionRunsWitness ==
    /\ scenario.name = "Redefine" /\ scenario.in = <<"FunctionDeclaration", TRUE>>
    /\ Finished
    /\ functions["show"] = showArgFunc
    /\ Len(out) = 2 /\ out[1].args = <<NumV(1)>> /\ out[2].args = <<NumV(2)>>

\* C17: a call of a name registered both as a builtin and as a user function
\* invokes the builtin, in whichever order the two were registered and
\* whether or not the name was called before; a name registered only as a
\* user function runs that function; a name registered as neither fails
\* with the undefined-function error.
BuiltinsResolveFirst ==
    (scenario.name = "Resolve" /\ Finished) =>
        LET last == results[Len(results)]
        IN  CASE scenario.in[1] \in {"builtin, function", "function, builtin"} ->
                   /\ last = [val |-> NilV, err |-> NoErr]
                   /\ out # << >> /\ out[Len(out)].fn = "showBuiltin"
              [] scenario.in[1] = "function" ->
                   /\ last = [val |-> NilV, err |-> NoErr]
                   /\ \A i \in DOMAIN out : out[i].fn = "print" /\ out[i].args = <<NumV(1)>>
                   /\ Len(out) = Len(results)
              [] scenario.in[1] = "none" ->
                   /\ last = [val |-> NilV, err |-> Err("undefined function", "show")]
                   /\ out = << >>

BuiltinsResolveFirstWitness ==
    /\ scenario.name = "Resolve" /\ scenario.in = <<"function, builtin", TRUE>>
    /\ variant = "stack" /\ Finished
    /\ Len(out) = 2 /\ out[1].fn = "print" /\ out[2].fn = "showBuiltin"
    /\ Has(functions, "show") /\ Has(builtins, "show")

\* C18: a Program whose first failing statement is statement i returns that
\* statement's error and no value, runs no statement after i, and keeps the
\* bindings of statements 1 .. i-1; a Program with no failing statement
\* returns the value of its last statement.
ProgramStopsAtFirstError ==
    (scenario.name = "Statements" /\ Finished) =>
        LET k == scenario.in[1]
            fails == scenario.in[2]
            first == IF fails = {} THEN k + 1
                     ELSE CHOOSE i \in fails : \A j \in fails : i <= j
        IN  /\ TopLevel = [x \in {Names[j] : j \in 1..(first - 1)} |->
                              NumV(CHOOSE j \in 1..k : Names[j] = x)]
            /\ results[1] = IF fails = {} THEN [val |-> NumV(k), err |-> NoErr]
                            ELSE [val |-> NilV,
                                  err |-> Err("undefined variable", Undefined[first])]

ProgramStopsAtFirstErrorWitness ==
    /\ scenario.name = "Statements" /\ scenario.in = <<3, {2, 3}>> /\ Finished
    /\ results[1].err = Err("undefined variable", "u2")
    /\ DOMAIN TopLevel = {"x1"}

\* C19: the statements of a Program run from left to right, each seeing the
\* bindings made before it: on both Executors x = a; y = b; z = (x + y) * 2
\* ends with x = a, y = b and z = (a + b) * 2 in the top-level frame and
\* returns that z (a = 5, b = 3 gives 16).
StatementsSeeEarlierBindings ==
    (scenario.name = "BasicArithmetic" /\ Finished) =>
        LET a == scenario.in[1]
            b == scenario.in[2]
        IN  /\ TopLevel = [x \in {"x", "y", "z"} |->
                              NumV(CASE x = "x" -> a [] x = "y" -> b
                                     [] x = "z" -> (a + b) * 2)]
            /\ results = <<[val |-> NumV((a + b) * 2), err |-> NoErr]>>

StatementsSeeEarlierBindingsWitness ==
    /\ scenario.name = "BasicArithmetic" /\ scenario.in = <<5, 3>> /\ Finished
    /\ TopLevel["z"] = NumV(16)

\* C20: the for loop of test_programs/functions runs its initialization
\* once and then condition, body, post until the condition is false: the
\* builtin is invoked with 0, 1, ..., n-1 in this order and no more, the loop
\* terminates, and i = n afterwards (n = 5 prints 0 1 2 3 4).
printed(i) == [fn |-> "print", args |-> <<NumV(i - 1)>>, t |-> 1]

ForLoopCountsToN ==
    /\ [](scenario.name = "Loops" =>
            /\ Len(out) <= scenario.in[1]
            /\ \A i \in DOMAIN out : out[i] = printed(i)
            /\ Finished =>
                  /\ Len(out) = scenario.in[1]
                  /\ TopLevel = [x \in {"i"} |-> NumV(scenario.in[1])]
                  /\ results = <<[val |-> NilV, err |-> NoErr]>>)
    /\ (scenario.name = "Loops" ~> Finished)

ForLoopCountsToNWitness ==
    /\ scenario.name = "Loops" /\ scenario.in[1] = 5 /\ Finished
    /\ out = [i \in 1..5 |-> printed(i)]
    /\ TopLevel["i"] = NumV(5)

\* C21: the chain if temperature > hi Gas, else if temperature > 0 Liquid,
\* else Solid executes one branch only, the first whose condition is true or
\* else the last alternate: state is never bound to another branch's value,
\* and when the Program has returned state is bound to that branch's value
\* (temperature = 50 with hi = 100 gives Liquid).
ChosenState ==
    IF scenario.in[1] > scenario.in[2] THEN StrV("Gas")
    ELSE IF scenario.in[1] > 0 THEN StrV("Liquid")
    ELSE StrV("Solid")

IfChainRunsOneBranch ==
    scenario.name = "ConditionalLogic" =>
        /\ Has(TopLevel, "state") => TopLevel["state"] = ChosenState
        /\ Finished =>
              /\ TopLevel = [x \in {"temperature", "state"} |->
                                IF x = "state" THEN ChosenState ELSE NumV(scenario.in[1])]
              /\ results = <<[val |-> ChosenState, err |-> NoErr]>>

IfChainRunsOneBranchWitness ==
    /\ scenario.name = "ConditionalLogic" /\ scenario.in = <<50, 100>> /\ Finished
    /\ TopLevel["state"] = StrV("Liquid")

\* what an operand of the Operands harness evaluates to
OperandValue(o) ==
    CASE o.k = "num" -> NumV(o.n)
      [] o.k = "str" -> StrV(o.s)
      [] o.k = "bool" -> BoolV(TRUE)
      [] OTHER -> NumV(0)

\* C22: on the stack-based Executor l + r with two string operands returns
\* the concatenation of the two strings and no error ("x" + "y" is "xy").
StringsConcatenate ==
    (/\ scenario.name = "Operands" /\ variant = "stack" /\ Finished
     /\ scenario.in[1] = "+"
     /\ scenario.in[2].k = "str" /\ scenario.in[3].k = "str") =>
        results = <<[val |-> StrV(scenario.in[2].s \o scenario.in[3].s), err |-> NoErr]>>

\* C23: on both Executors l op r, with op one of + - * / and l and r of
\* different types (a number and a string in either order, or a number and
\* a boolean), returns an error and no value, and the process does not
\* crash.
MixedTypes ==
    LET l == OperandValue(scenario.in[2]).t
        r == OperandValue(scenario.in[3]).t
    IN  /\ scenario.name = "Operands"
        /\ {l, r} \in {{"num", "str"}, {"num", "bool"}}

MixedTypesReturnError ==
    MixedTypes =>
        /\ ~crashed
        /\ Finished => /\ results[1].val = NilV
                       /\ results[1].err # NoErr

\* C24: on both Executors a / b with numeric operands returns the error
\* division by zero and no value when b evaluates to 0 (a literal, a
\* variable or a sub-expression), and the quotient and no error otherwise.
DivisionByZeroFails ==
    (/\ scenario.name = "Operands" /\ Finished
     /\ scenario.in[1] = "/"
     /\ OperandValue(scenario.in[2]).t = "num"
     /\ OperandValue(scenario.in[3]).t = "num") =>
        LET a == OperandValue(scenario.in[2])
            b == OperandValue(scenario.in[3])
        IN  results = <<IF b.n = 0
                        THEN [val |-> NilV, err |-> Err("division by zero", "")]
                        ELSE [val |-> Frac(a.n, b.n), err |-> NoErr]>>

DivisionByZeroFailsWitness ==
    /\ scenario.name = "Operands" /\ Finished
    /\ scenario.in = <<"/", NumOperand(1), VarOperand>>
    /\ results[1].err = Err("division by zero", "")
    /\ TopLevel["d"] = NumV(0)

\* C25: the children of a parallel block never access the functions map or
\* the builtinCache map at the same time with one of them writing, neither
\* when a child executes a FunctionDeclaration nor when children make the
\* first calls of a builtin that is not cached yet.
RegistrySynchronized == raced \cap {"functions", "builtinCache"} = {}

\* C26: a parallel block whose children's own statements terminate always
\* completes, whatever maxGoroutines >= 1 is, also with more children than
\* permits and with a child that is itself a parallel block: while a block
\* has not returned (and the process has not crashed) some goroutine can
\* take a step, so that under fair scheduling the block returns.
ParallelBlockNeverStuck ==
    \A b \in Blocks : (~blocks[b].returned /\ ~crashed) => ENABLED Next

\* C27: on the stack-based Executor the number of permits held equals the
\* number of children that have been started and have not finished, whether
\* the children succeed or fail, and no permit is held when the top-level
\* Execute has returned.
PermitsMatchChildren ==
    variant = "stack" =>
        /\ sem = Cardinality({t \in Threads : Unfinished(t)})
        /\ threads[1].pc = "idle" => sem = 0

PermitsMatchChildrenWitness ==
    /\ variant = "stack" /\ maxGoroutines = 1 /\ Finished
    /\ scenario.name = "Children" /\ scenario.in = <<3, {1, 3}>>
    /\ sem = 0
    /\ Len(blocks[1].failed) = 2
    /\ \A t \in ChildrenOf(1) : threads[t].pc = "done"

\* C28: on the stack-based Executor envStack is never empty and its bottom
\* element is the base frame made by NewExecutor, in every interleaving of
\* parallel children that call user functions; when the top-level Execute
\* has returned envStack holds the base frame only.
EnvStackKeepsBaseFrame ==
    variant = "stack" =>
        /\ Len(envStack) >= 1
        /\ envStack[1] = Environment(1, FALSE)
        /\ threads[1].pc = "idle" => Len(envStack) = 1

\* the maps of the frames of a sequence of frames
FrameMaps(frames) == {frames[i].variables : i \in DOMAIN frames}

\* C29: while no ParallelBlock has run, on the stack-based Executor every
\* frame of envPool has isReusable = TRUE, the base frame is not in the pool,
\* no frame is on envStack and in envPool at once (a frame is known by its
\* map), no frame is pooled twice, and the frame pushEnv took from the pool
\* and is about to append has no bindings.
FramePoolSound ==
    (variant = "stack" /\ blocks = << >>) =>
        /\ \A i \in DOMAIN envPool : envPool[i].isReusable
        /\ 1 \notin FrameMaps(envPool)
        /\ FrameMaps(envStack) \cap FrameMaps(envPool) = {}
        /\ Cardinality(FrameMaps(envPool)) = Len(envPool)
        /\ \A t \in Threads :
              (threads[t].stack # << >> /\ Top(t).k = "Call" /\ Top(t).at = "append")
                  => /\ heap[Top(t).newEnv.variables] = EmptyMap
                     /\ Top(t).newEnv.isReusable
                     /\ Top(t).newEnv.variables \notin
                            FrameMaps(envStack) \cup FrameMaps(envPool)

\* the second of two sibling calls is about to append the frame the first
\* call left in the pool: the first call's map still holds its binding, the
\* frame's map is a new, empty one, and the pool is empty again
FramePoolSoundWitness ==
    /\ variant = "stack" /\ blocks = << >>
    /\ scenario.name = "Scope"
    /\ threads[1].stack # << >> /\ Top(1).k = "Call" /\ Top(1).at = "append"
    /\ Top(1).newEnv = Environment(3, TRUE)
    /\ heap[2] # EmptyMap /\ heap[3] = EmptyMap
    /\ envPool = << >> /\ Len(envStack) = 1

\* C30: on the stack-based Executor l op r with an operator that is not one
\* of + - * / returns the unknown-operator error before either operand is
\* evaluated: the assignment or builtin call used as an operand is never
\* executed, no operand is ever being evaluated, and the environment stays
\* as the statement before left it (d = 0), also when an operand would fail.
UnknownOperatorFailsFirst ==
    (scenario.name = "Operator" /\ variant = "stack") =>
        /\ out = << >>
        /\ builtinCache = << >>
        /\ Len(heap) = 1 /\ Len(envStack) = 1 /\ envPool = << >>
        /\ ~Has(TopLevel, "u")
        /\ Has(TopLevel, "d") => TopLevel["d"] = NumV(0)
        /\ \A i \in DOMAIN threads[1].stack :
              threads[1].stack[i].k \notin {"BinaryLeft", "BinaryRight"}
        /\ Finished =>
              /\ results = <<[val |-> NilV, err |-> Err("unknown operator", scenario.in[1])]>>
              /\ DOMAIN TopLevel = {"d"}

\* (d = 1) % print(1) has returned the error: d is still 0, nothing printed
UnknownOperatorFailsFirstWitness ==
    /\ scenario.name = "Operator" /\ variant = "stack" /\ Finished
    /\ scenario.in = <<"%", "assign", "call">>
    /\ results[1].err = Err("unknown operator", "%")
    /\ TopLevel["d"] = NumV(0)
    /\ out = << >>

\* goroutine t, whose Assignment evaluated its value, takes its next step
ValueReturned(t) ==
    /\ AtRet(t, "Assignment")
    /\ threads'[t] # threads[t]

\* goroutine t finishes the store of an Assignment in this step
StoreCommitted(t) ==
    /\ Running(t) /\ threads[t].pc = "mapassign"
    /\ threads[t].w.m = "env" /\ threads[t].w.next = "ret"
    /\ threads'[t].pc = "ret"

\* the map of the current frame
CurrentMap == IF variant = "stack" THEN currentEnv.variables ELSE env

\* what the steps of an Assignment may change once its value has returned
AssignmentEffect(t) ==
    /\ ValueReturned(t) =>
          /\ UNCHANGED <<envs, regs>>
          /\ IF threads[t].err # NoErr
             THEN /\ threads'[t].pc = "ret"
                  /\ threads'[t].val = NilV /\ threads'[t].err = threads[t].err
             ELSE /\ threads'[t].pc = "mapassign"
                  /\ threads'[t].w.id = CurrentMap
                  /\ threads'[t].w.key = Top(t).name
                  /\ threads'[t].w.val = threads[t].val
    /\ StoreCommitted(t) =>
          LET w == threads[t].w
          IN  /\ w.id = CurrentMap
              /\ heap' = [heap EXCEPT ![w.id] = Put(heap[w.id], w.key, w.val)]
              /\ UNCHANGED <<envStack, env, envPool, regs>>
              /\ threads'[t].val = w.val /\ threads'[t].err = NoErr

\* C31: an Assignment changes the binding of its target in the current frame
\* and nothing else (no other binding of that frame, no other frame, not the
\* pool, not the registries) and returns the assigned value; when its value
\* fails it returns the error and changes nothing.
AssignmentChangesOnlyTarget ==
    [][\A t \in Threads : AssignmentEffect(t)]_vars

\* the same, as long as no two goroutines have raced on a frame's map
AssignmentChangesOnlyTargetUnraced ==
    [][("env" \notin raced') => \A t \in Threads : AssignmentEffect(t)]_vars

\* the results of the calls made on the stack-based Executor and of the same
\* calls made on the map-based one
StackResults == SubSeq(results, 1, Len(results) \div 2)
MapResults == SubSeq(results, Len(results) \div 2 + 1, Len(results))

\* two results agree: the same value and no error, or an error each
SameOutcome(a, b) ==
    \/ a.err = NoErr /\ b.err = NoErr /\ a.val = b.val
    \/ a.err # NoErr /\ b.err # NoErr

\* C32: a program without String, FunctionCall and ParallelBlock, with the
\* operators + - * / only, executed on the stack-based Executor and on the
\* map-based Executor: neither crashes, both return the same value or both
\* an error, and both leave the same bindings in their top-level frame.
ExecutorsAgree ==
    scenario.name = "Agree" =>
        /\ ~crashed
        /\ Finished =>
              /\ Len(StackResults) = Len(MapResults)
              /\ \A i \in DOMAIN StackResults : SameOutcome(StackResults[i], MapResults[i])
              /\ heap[envStack[1].variables] = heap[env]

\* the same without the programs l + r whose right operand is no number
ExecutorsAgreeOnNumbers ==
    (/\ scenario.name = "Agree"
     /\ ~(/\ scenario.in[1] = "Operands" /\ scenario.in[2] = "+"
          /\ scenario.in[3].k = "num" /\ scenario.in[4].k = "bool")) => ExecutorsAgree

====
